---- MODULE Spec2Model ----
(***************************************************************************)
(* Model of github.com/dollarshaveclub/go-productionize: the runtime       *)
(* metrics Reporter (reporter/reporter.go, select-based watch loop), the   *)
(* svcinfo package it reads (with its init, which falls back on the        *)
(* environment) and the healthz endpoints (New, Ready, NotReady, Alive,    *)
(* NotAlive and the ready, alive, stats and abortabortabort handlers).     *)
(*                                                                         *)
(* Spec follows one Reporter from New on; SpecMidLife a Reporter late in   *)
(* its life; SpecHeld a Reporter whose GetStats callers keep their         *)
(* snapshots; SpecLock a Reporter with several concurrent GetStats         *)
(* callers; SpecSvcinfo the svcinfo package from link time on;             *)
(* SpecDefault a Reporter built without options;                           *)
(* SpecHealthz one Healthz and its callers; SpecHealthzStats a Healthz     *)
(* that may have been given a Reporter. SpecFair, SpecMidLifeFair and      *)
(* SpecLock state the scheduling the liveness properties rest on.          *)
(*                                                                         *)
(* Time is counted in whole units of one second (DefaultPeriod = 5).       *)
(* A statistic sampled by runtime.ReadMemStats or by the runtime counter   *)
(* calls is abstracted to the number ("gen") of the sampling pass that     *)
(* produced it, so that two samples can always be told apart; the GC       *)
(* count, the pause ring and the size-class table keep their structure.    *)
(* The pause of GC event k is abstracted to the duration k ns.             *)
(***************************************************************************)
EXTENDS Integers, Sequences, FiniteSets, TLC

\* ------------------------------------------------------------- bounds
MaxPasses == 2
MaxProcessTime == 2
MaxGCStep == 3
NumReaders == 1
NumSizeClasses == 3
MaxOptions == 2

\* The pause loop is followed for at most this many samples in one pass;
\* more than any terminating loop of the model emits (MaxGCStep + 1).
MaxPauseEmit == MaxGCStep + 3

\* -------------------------------------------------- program constants
DefaultPeriod == 5
RingSize == 256

\* A uint32 is kept at its full width as two 16-bit halves, its value
\* being hi * 65536 + lo: TLC's own integers stop at 2^31 - 1.
HalfWord == 65536

U32(hi, lo) == [hi |-> hi, lo |-> lo]

U32Zero == U32(0, 0)

MaxUint32 == U32(HalfWord - 1, HalfWord - 1)

\* x + 1 in uint32 arithmetic: 2^32 - 1 wraps to 0.
U32Inc(x) ==
  IF x.lo < HalfWord - 1 THEN U32(x.hi, x.lo + 1)
  ELSE U32((x.hi + 1) % HalfWord, 0)

RECURSIVE U32Add(_, _)
U32Add(x, d) == IF d = 0 THEN x ELSE U32Add(U32Inc(x), d - 1)

U32Le(a, b) == a.hi < b.hi \/ (a.hi = b.hi /\ a.lo <= b.lo)

\* b - a for a <= b not further apart than a TLC integer holds.
U32Diff(b, a) == (b.hi - a.hi) * HalfWord + (b.lo - a.lo)

\* x % 256; 65536 is a multiple of 256.
U32Slot(x) == x.lo % RingSize

Readers == 1..NumReaders

\* ------------------------------------------------------ slices, heap
\* A Go slice is a header (array, len, cap) over a backing array held in
\* heap; append writes in place when the capacity allows it.
ArrayIds == {"global", "A", "B", "rt", "info", "tmp"}

Slice(a, l, c) == [arr |-> a, len |-> l, cap |-> c]

Contents(h, s) == SubSeq(h[s.arr], 1, s.len)

GoAppend(h, s, elems, fresh) ==
  LET n == Len(elems) IN
  IF s.len + n <= s.cap
    THEN [heap |-> [h EXCEPT ![s.arr] =
                      [p \in 1..s.cap |->
                         IF p > s.len /\ p <= s.len + n THEN elems[p - s.len]
                                                        ELSE h[s.arr][p]]],
          slice |-> Slice(s.arr, s.len + n, s.cap)]
    ELSE [heap |-> [h EXCEPT ![fresh] = Contents(h, s) \o elems],
          slice |-> Slice(fresh, s.len + n, s.len + n)]

\* The package-level defaultTags = []string{} and the two tag lists a
\* caller passes: a literal (len = cap) and a slice with spare capacity.
GlobalTags == Slice("global", 0, 0)
TagsA == Slice("A", 2, 2)
TagsB == Slice("B", 1, 5)

InitHeap ==
  [a \in ArrayIds |->
     CASE a = "A" -> <<"tag1:blah", "tag2:blahblah">>
       [] a = "B" -> <<"env:prod", "", "", "", "">>
       [] OTHER -> <<>>]

\* ------------------------------------------------------------ options
PeriodOpt(t) == [kind |-> "Period", t |-> t, tags |-> GlobalTags]
DefaultTagsOpt(s) == [kind |-> "DefaultTags", t |-> 0, tags |-> s]

OptionSet == {PeriodOpt(-1), PeriodOpt(0), PeriodOpt(2),
              DefaultTagsOpt(TagsA), DefaultTagsOpt(TagsB)}

RECURSIVE SeqsUpTo(_, _)
SeqsUpTo(S, n) ==
  IF n = 0 THEN {<<>>}
  ELSE LET shorter == SeqsUpTo(S, n - 1) IN
       shorter \cup {Append(q, x) : q \in {p \in shorter : Len(p) = n - 1}, x \in S}

OptionLists == SeqsUpTo(OptionSet, MaxOptions)

\* ------------------------------------------------------------ svcinfo
\* The package variables CommitSHA, BuildDate and Version of svcinfo.
SvcSamples ==
  {[CommitSHA |-> "", BuildDate |-> "", Version |-> ""],
   [CommitSHA |-> "abc123", BuildDate |-> "", Version |-> "v1.2.0"]}

\* What the linker may have set, and what the environment may hold, for
\* each of the three: nothing, or a value.
SvcCompiled ==
  [CommitSHA : {"", "abc123"}, BuildDate : {"", "2019-01-01"},
   Version : {"", "v1.2.0"}]

EnvSamples ==
  [COMMIT_SHA : {"", "def456"}, BUILD_DATE : {"", "2019-02-02"},
   VERSION : {"", "v2.0.0"}]

NoEnv == [COMMIT_SHA |-> "", BUILD_DATE |-> "", VERSION |-> ""]

\* Mutant of InitField: the environment variable wins when it is set.
InitField_EnvWins(c, e) == IF e # "" THEN e ELSE c

\* init: if X == "" && os.Getenv(xEnv) != "" { X = os.Getenv(xEnv) }.
InitField(c, e) == IF c = "" /\ e # "" THEN e ELSE c

\* Mutant of GetDDTags: the version tag is appended first.
GetDDTags_VersionFirst(s) ==
  LET t0 == <<>>
      t1 == IF s.Version # "" THEN Append(t0, "version:" \o s.Version) ELSE t0
      t2 == IF s.CommitSHA # "" THEN Append(t1, "commit:" \o s.CommitSHA) ELSE t1
      t3 == IF s.BuildDate # "" THEN Append(t2, "build_date:" \o s.BuildDate) ELSE t2
  IN t3

GetDDTags(s) ==
  LET t0 == <<>>
      t1 == IF s.CommitSHA # "" THEN Append(t0, "commit:" \o s.CommitSHA) ELSE t0
      t2 == IF s.BuildDate # "" THEN Append(t1, "build_date:" \o s.BuildDate) ELSE t1
      t3 == IF s.Version # "" THEN Append(t2, "version:" \o s.Version) ELSE t2
  IN t3

GetInfo(s) ==
  [BuildDate |-> s.BuildDate, CommitSHA |-> s.CommitSHA, Version |-> s.Version]

\* -------------------------------------------------------------- Stats
ZeroGoInfo == [Arch |-> "", OS |-> "", Version |-> ""]
ZeroServiceInfo == [BuildDate |-> "", CommitSHA |-> "", Version |-> ""]
ZeroMem == [gen |-> 0, NumGC |-> U32Zero, active |-> {}]
ZeroRuntime == [gen |-> 0]
ZeroStats ==
  [GoInfo |-> ZeroGoInfo, Mem |-> ZeroMem, Runtime |-> ZeroRuntime,
   ServiceInfo |-> ZeroServiceInfo]

\* runtime.Version(), runtime.GOARCH, runtime.GOOS of the running binary.
RuntimeGoInfo == [Arch |-> "amd64", OS |-> "linux", Version |-> "go1.12"]

\* MemStats.PauseNs[s]: the runtime stores the pause of GC event k at slot
\* (k - 1) % 256, so with fewer than 256 events the slots from NumGC on
\* were never written and hold 0. The pause held by a written slot s is
\* abstracted to 1000 + s ns.
PauseNs(m, s) ==
  IF m.NumGC.hi = 0 /\ m.NumGC.lo < RingSize /\ s >= m.NumGC.lo THEN 0
  ELSE 1000 + s

\* MemStats.BySize: one entry per size class, index 0 being size 0; the
\* classes of m.active have allocations, the others none.
SizeOfClass(c) == 8 * (c - 1)

BySize(m) ==
  [c \in 1..NumSizeClasses |->
     [Size |-> IF m.gen = 0 THEN 0 ELSE SizeOfClass(c),
      Mallocs |-> IF c \in m.active THEN 100 ELSE 0,
      Frees |-> IF c \in m.active THEN 40 ELSE 0]]

ActiveSets == {{}, 2..NumSizeClasses}

\* fmt.Sprintf("%dns", v): the decimal digits of v and the unit.
SprintfNs(v) == [digits |-> v, unit |-> "ns"]

\* time.ParseDuration of such a text: the value in nanoseconds. It fails
\* on an unknown unit and on a value of 2^63 or more, which no pause time
\* of the model reaches.
ParseDuration(text) ==
  IF text.unit \in {"ns", "us", "ms", "s", "m", "h"} /\ text.digits >= 0
    THEN [err |-> FALSE,
          d |-> CASE text.unit = "ns" -> text.digits
                  [] text.unit = "us" -> text.digits * 1000
                  [] text.unit = "ms" -> text.digits * 1000000
                  [] OTHER -> text.digits * 1000000000]
    ELSE [err |-> TRUE, d |-> 0]

\* ---------------------------------------------------------- variables
VARIABLES
  options,      \* New's argument: the option functions, in argument order
  svc,          \* svcinfo's CommitSHA, BuildDate, Version
  newPc,        \* position of the caller inside New
  heap,         \* backing arrays of the tag slices
  period,       \* r.period
  defaultTags,  \* r.defaultTags (slice header)
  infoTags,     \* r.infoTags
  runtimeTags,  \* r.runtimeTags
  stats,        \* r.stats
  mu,           \* r.RWMutex
  cancelled,    \* r.ctx is done
  wPc,          \* position of the watch goroutine
  lastGCNum,    \* watch: lastGCNum
  i,            \* exportMemStats: counter of the pause loop (uint32)
  timerC,       \* values waiting in timer.C (capacity 1)
  timerLeft,    \* time until the timer of watch fires, -1 when none is set
  passes,       \* number of passes started
  rPc,          \* position of each GetStats caller
  snap,         \* the copy each GetStats caller is building
  held,         \* the Stats variable of each caller that keeps the result
  sink,         \* calls received by the statsd client since the last pass began
  startups,     \* number of "startup" counters received
  firstCall,    \* name of the first call the statsd client received
  cancelEarly,  \* Cancel was called before the first pass started
  overran,      \* the last pass took at least the period
  sinceStart,   \* time since the start of the running or the last pass
  env,          \* the process environment: COMMIT_SHA, BUILD_DATE, VERSION
  compiled,     \* svcinfo's variables as the linker set them (-ldflags -X)
  svcPc,        \* whether svcinfo's init has run
  hzMux,        \* healthz.New's argument mux: "nil" or "mux"
  hzOpts,       \* healthz.New's option functions, in argument order
  hzPc,         \* position of the caller inside healthz.New
  hzErr,        \* the error healthz.New returned, "" for nil
  hzApplied,    \* number of option functions healthz.New has called
  hz,           \* the Healthz struct h
  hzReq,        \* the request each handler is serving
  hzResp,       \* the last response of each endpoint
  hzStats,      \* the last response of /healthz/stats
  lastReady,    \* most recent of Ready() / NotReady()
  lastAlive,    \* most recent of Alive() / NotAlive()
  aborted,      \* a request to /healthz/abortabortabort has completed
  readySinceAbort,  \* Ready() was called after the last abort's NotReady()
  aliveSinceAbort   \* Alive() was called after the last abort's NotAlive()

vars ==
  <<options, svc, newPc, heap, period, defaultTags, infoTags, runtimeTags,
    stats, mu, cancelled, wPc, lastGCNum, i, timerC, timerLeft, passes,
    rPc, snap, held, sink, startups, firstCall, cancelEarly, overran, sinceStart,
    env, compiled, svcPc,
    hzMux, hzOpts, hzPc, hzErr, hzApplied, hz, hzReq, hzResp, hzStats,
    lastReady, lastAlive, aborted, readySinceAbort, aliveSinceAbort>>

configVars == <<period, defaultTags, infoTags, runtimeTags>>
workerVars == <<wPc, lastGCNum, i, passes>>
timerVars == <<timerC, timerLeft>>
readerVars == <<rPc, snap, held>>
sinkVars == <<sink, startups, firstCall>>
ghostVars == <<cancelEarly, overran, sinceStart>>
inputVars == <<options, svc>>
svcinfoVars == <<env, compiled, svcPc>>
reporterVars ==
  <<options, newPc, heap, configVars, stats, mu, cancelled, workerVars,
    timerVars, readerVars, sinkVars, ghostVars>>

hzInputVars == <<hzMux, hzOpts>>
hzNewVars == <<hzPc, hzErr, hzApplied>>
hzCallVars == <<lastReady, lastAlive>>
hzAbortVars == <<aborted, readySinceAbort, aliveSinceAbort>>
healthzVars ==
  <<hzInputVars, hzNewVars, hz, hzReq, hzResp, hzStats, hzCallVars, hzAbortVars>>

\* The state outside the Reporter.
otherVars == <<svcinfoVars, healthzVars>>

\* One call of the statsd client; tags are the contents of the slice at
\* the time of the call, slot is the pause-ring slot a timing was read from.
Call(kind, name, val, tags, slot) ==
  [kind |-> kind, name |-> name, val |-> val, tags |-> tags, slot |-> slot]

Gauge(name, val, tags) == Call("gauge", name, val, tags, -1)

Send(calls) ==
  /\ sink' = sink \o calls
  /\ startups' = startups + Cardinality({k \in 1..Len(calls) : calls[k].name = "startup"})
  /\ firstCall' = IF firstCall = "" /\ calls # <<>> THEN calls[1].name ELSE firstCall

\* ============================================================ healthz
healthy == 0
unhealthy == 1

\* statuses, indexed from 0 in the source.
statuses ==
  <<[HTTPCode |-> 200, Description |-> "healthy"],
    [HTTPCode |-> 503, Description |-> "unhealthy"]>>

HzOptionSet == {"SetAlive", "SetDataDogClient", "SetReporter"}

HzOptionLists == SeqsUpTo(HzOptionSet, MaxOptions)

\* No Healthz (the nil *Healthz).
NilHealthz ==
  [alive |-> -1, ready |-> -1, Status |-> -1, dd |-> FALSE, reporter |-> FALSE]

\* h after the option functions ran in order.
RECURSIVE HzApplyOptions(_, _)
HzApplyOptions(hh, opts) ==
  IF opts = <<>> THEN hh
  ELSE LET o == Head(opts) IN
       HzApplyOptions(CASE o = "SetAlive" -> [hh EXCEPT !.alive = healthy]
                        [] o = "SetDataDogClient" -> [hh EXCEPT !.dd = TRUE]
                        [] o = "SetReporter" -> [hh EXCEPT !.reporter = TRUE],
                      Tail(opts))

Endpoints == {"ready", "alive", "abort"}

NoRequest == [pc |-> "idle", val |-> -1, seen |-> "none", pinned |-> FALSE]

NoResponse == [code |-> 0, body |-> "", seen |-> "none", pinned |-> FALSE]

\* No request to /healthz/stats so far.
NoStats ==
  [code |-> 0, Status |-> [HTTPCode |-> 0, Description |-> ""],
   SvcInfo |-> ZeroServiceInfo, GoInfo |-> ZeroGoInfo, GoRuntime |-> ZeroRuntime,
   timed |-> FALSE]

\* Mutant of HzNewNilCheck: the mux is not looked at.
HzNewNilCheck_Missing ==
  /\ hzPc = "none"
  /\ hz' = [alive |-> unhealthy, ready |-> unhealthy, Status |-> unhealthy,
           dd |-> FALSE, reporter |-> FALSE]
  /\ hzPc' = "options"
  /\ UNCHANGED <<reporterVars, svc, svcinfoVars, hzInputVars, hzStats, hzErr, hzApplied,
                 hzReq, hzResp, hzCallVars, hzAbortVars>>

\* New, lines 153-161: nil and an error for a nil mux, else the struct
\* with alive, ready and Status unhealthy.
HzNewNilCheck ==
  /\ hzPc = "none"
  /\ IF hzMux = "nil"
       THEN /\ hzErr' = "you must provide a http.ServeMux"
            /\ hzPc' = "failed"
            /\ hz' = hz
       ELSE /\ hz' = [alive |-> unhealthy, ready |-> unhealthy,
                     Status |-> unhealthy, dd |-> FALSE, reporter |-> FALSE]
            /\ hzPc' = "options"
            /\ hzErr' = hzErr
  /\ UNCHANGED <<reporterVars, svc, svcinfoVars, hzInputVars, hzStats, hzApplied,
                 hzReq, hzResp, hzCallVars, hzAbortVars>>

\* New, lines 163-165: the options loop.
HzNewOptions ==
  /\ hzPc = "options"
  /\ hz' = HzApplyOptions(hz, hzOpts)
  /\ hzApplied' = Len(hzOpts)
  /\ hzPc' = "register"
  /\ UNCHANGED <<reporterVars, svc, svcinfoVars, hzInputVars, hzStats, hzErr,
                 hzReq, hzResp, hzCallVars, hzAbortVars>>

\* New, lines 168-186: the handlers are registered and h, nil returned;
\* from now on the service may call h and the mux may serve requests.
HzNewRegister ==
  /\ hzPc = "register"
  /\ hzPc' = "serving"
  /\ UNCHANGED <<reporterVars, svc, svcinfoVars, hzInputVars, hzStats, hzErr, hzApplied,
                 hz, hzReq, hzResp, hzCallVars, hzAbortVars>>

\* Ready, lines 246-251. The assignment is made under h.Lock(), the reads
\* of the handlers under h.RLock(): each is one step.
HzReady ==
  /\ hzPc = "serving"
  /\ hz' = [hz EXCEPT !.ready = healthy]
  /\ lastReady' = "Ready"
  /\ readySinceAbort' = TRUE
  /\ UNCHANGED <<reporterVars, svc, svcinfoVars, hzInputVars, hzStats, hzNewVars,
                 hzReq, hzResp, lastAlive, aborted, aliveSinceAbort>>

\* NotReady, lines 254-259.
HzNotReady ==
  /\ hzPc = "serving"
  /\ hz' = [hz EXCEPT !.ready = unhealthy]
  /\ lastReady' = "NotReady"
  /\ UNCHANGED <<reporterVars, svc, svcinfoVars, hzInputVars, hzStats, hzNewVars,
                 hzReq, hzResp, lastAlive, hzAbortVars>>

\* Mutant of HzAlive: the wrong field is assigned.
HzAlive_SetsReady ==
  /\ hzPc = "serving"
  /\ hz' = [hz EXCEPT !.ready = healthy]
  /\ lastAlive' = "Alive"
  /\ aliveSinceAbort' = TRUE
  /\ UNCHANGED <<reporterVars, svc, svcinfoVars, hzInputVars, hzStats, hzNewVars,
                 hzReq, hzResp, lastReady, aborted, readySinceAbort>>

\* Alive, lines 280-285.
HzAlive ==
  /\ hzPc = "serving"
  /\ hz' = [hz EXCEPT !.alive = healthy]
  /\ lastAlive' = "Alive"
  /\ aliveSinceAbort' = TRUE
  /\ UNCHANGED <<reporterVars, svc, svcinfoVars, hzInputVars, hzStats, hzNewVars,
                 hzReq, hzResp, lastReady, aborted, readySinceAbort>>

\* NotAlive, lines 288-293.
HzNotAlive ==
  /\ hzPc = "serving"
  /\ hz' = [hz EXCEPT !.alive = unhealthy]
  /\ lastAlive' = "NotAlive"
  /\ UNCHANGED <<reporterVars, svc, svcinfoVars, hzInputVars, hzStats, hzNewVars,
                 hzReq, hzResp, lastReady, hzAbortVars>>

\* The answer of the ready and alive handlers for the state they read.
Answer(req) ==
  [code |-> statuses[req.val + 1].HTTPCode,
   body |-> statuses[req.val + 1].Description,
   seen |-> req.seen, pinned |-> req.pinned]

\* readyHandler, lines 264-268: the handler reads h.ready (with it are
\* kept the call that set it and whether an abort stands) ...
HzReadyRead ==
  /\ hzPc = "serving"
  /\ hzReq["ready"].pc = "idle"
  /\ hzReq' = [hzReq EXCEPT !["ready"] =
                 [pc |-> "read", val |-> hz.ready, seen |-> lastReady,
                  pinned |-> aborted /\ ~readySinceAbort]]
  /\ UNCHANGED <<reporterVars, svc, svcinfoVars, hzInputVars, hzStats, hzNewVars, hz,
                 hzResp, hzCallVars, hzAbortVars>>

\* ... lines 270-275: and answers statuses[ready].
HzReadyRespond ==
  /\ hzReq["ready"].pc = "read"
  /\ hzResp' = [hzResp EXCEPT !["ready"] = Answer(hzReq["ready"])]
  /\ hzReq' = [hzReq EXCEPT !["ready"] = NoRequest]
  /\ UNCHANGED <<reporterVars, svc, svcinfoVars, hzInputVars, hzStats, hzNewVars, hz,
                 hzCallVars, hzAbortVars>>

\* livelinessHandler, lines 298-302.
HzAliveRead ==
  /\ hzPc = "serving"
  /\ hzReq["alive"].pc = "idle"
  /\ hzReq' = [hzReq EXCEPT !["alive"] =
                 [pc |-> "read", val |-> hz.alive, seen |-> lastAlive,
                  pinned |-> aborted /\ ~aliveSinceAbort]]
  /\ UNCHANGED <<reporterVars, svc, svcinfoVars, hzInputVars, hzStats, hzNewVars, hz,
                 hzResp, hzCallVars, hzAbortVars>>

\* livelinessHandler, lines 304-309.
HzAliveRespond ==
  /\ hzReq["alive"].pc = "read"
  /\ hzResp' = [hzResp EXCEPT !["alive"] = Answer(hzReq["alive"])]
  /\ hzReq' = [hzReq EXCEPT !["alive"] = NoRequest]
  /\ UNCHANGED <<reporterVars, svc, svcinfoVars, hzInputVars, hzStats, hzNewVars, hz,
                 hzCallVars, hzAbortVars>>

\* abortAbortAbortHandler, line 362: h.NotReady().
HzAbortNotReady ==
  /\ hzPc = "serving"
  /\ hzReq["abort"].pc = "idle"
  /\ hz' = [hz EXCEPT !.ready = unhealthy]
  /\ lastReady' = "NotReady"
  /\ readySinceAbort' = FALSE
  /\ hzReq' = [hzReq EXCEPT !["abort"] = [NoRequest EXCEPT !.pc = "notready"]]
  /\ UNCHANGED <<reporterVars, svc, svcinfoVars, hzInputVars, hzStats, hzNewVars,
                 hzResp, lastAlive, aborted, aliveSinceAbort>>

\* Mutant of HzAbortNotAlive: the handler leaves h.alive alone.
HzAbortNotAlive_Skipped ==
  /\ hzReq["abort"].pc = "notready"
  /\ aliveSinceAbort' = FALSE
  /\ hzReq' = [hzReq EXCEPT !["abort"] = [NoRequest EXCEPT !.pc = "notalive"]]
  /\ UNCHANGED <<reporterVars, svc, svcinfoVars, hzInputVars, hzStats, hzNewVars, hz,
                 hzResp, hzCallVars, aborted, readySinceAbort>>

\* abortAbortAbortHandler, line 363: h.NotAlive().
HzAbortNotAlive ==
  /\ hzReq["abort"].pc = "notready"
  /\ hz' = [hz EXCEPT !.alive = unhealthy]
  /\ lastAlive' = "NotAlive"
  /\ aliveSinceAbort' = FALSE
  /\ hzReq' = [hzReq EXCEPT !["abort"] = [NoRequest EXCEPT !.pc = "notalive"]]
  /\ UNCHANGED <<reporterVars, svc, svcinfoVars, hzInputVars, hzStats, hzNewVars,
                 hzResp, lastReady, aborted, readySinceAbort>>

\* abortAbortAbortHandler, lines 365-366: the answer, 200.
HzAbortRespond ==
  /\ hzReq["abort"].pc = "notalive"
  /\ hzResp' = [hzResp EXCEPT !["abort"] =
                  [NoResponse EXCEPT !.code = 200,
                                     !.body = "App reporting as unhealthy..."]]
  /\ hzReq' = [hzReq EXCEPT !["abort"] = NoRequest]
  /\ aborted' = TRUE
  /\ UNCHANGED <<reporterVars, svc, svcinfoVars, hzInputVars, hzStats, hzNewVars, hz,
                 hzCallVars, readySinceAbort, aliveSinceAbort>>

\* Mutant of HzStats: the handler takes the status from h.ready.
HzStats_FromReady ==
  /\ hzPc = "serving"
  /\ hzStats' = [code |-> 200,
                 Status |-> statuses[hz.ready + 1],
                 SvcInfo |-> IF hz.reporter THEN stats.ServiceInfo ELSE ZeroServiceInfo,
                 GoInfo |-> IF hz.reporter THEN stats.GoInfo ELSE ZeroGoInfo,
                 GoRuntime |-> IF hz.reporter THEN stats.Runtime ELSE ZeroRuntime,
                 timed |-> hz.dd]
  /\ UNCHANGED <<reporterVars, svc, svcinfoVars, hzInputVars, hzNewVars, hz,
                 hzReq, hzResp, hzCallVars, hzAbortVars>>

\* statsHandler, lines 314-348: the body is the JSON of statuses[h.Status]
\* (read without the lock) and, if h.reporter is not nil, of the GoInfo,
\* Runtime and ServiceInfo of h.reporter.GetStats(), else of their zero
\* values; the response code is 200 (json.MarshalIndent does not fail on
\* these types), and the request is timed to h.dd if that is set.
HzStats ==
  /\ hzPc = "serving"
  /\ hzStats' = [code |-> 200,
                 Status |-> statuses[hz.Status + 1],
                 SvcInfo |-> IF hz.reporter THEN stats.ServiceInfo ELSE ZeroServiceInfo,
                 GoInfo |-> IF hz.reporter THEN stats.GoInfo ELSE ZeroGoInfo,
                 GoRuntime |-> IF hz.reporter THEN stats.Runtime ELSE ZeroRuntime,
                 timed |-> hz.dd]
  /\ UNCHANGED <<reporterVars, svc, svcinfoVars, hzInputVars, hzNewVars, hz,
                 hzReq, hzResp, hzCallVars, hzAbortVars>>

\* No healthz.New so far.
HealthzNotBuilt ==
  /\ hzPc = "none"
  /\ hzErr = ""
  /\ hzApplied = 0
  /\ hz = NilHealthz
  /\ hzReq = [e \in Endpoints |-> NoRequest]
  /\ hzResp = [e \in Endpoints |-> NoResponse]
  /\ hzStats = NoStats
  /\ lastReady = "none"
  /\ lastAlive = "none"
  /\ aborted = FALSE
  /\ readySinceAbort = FALSE
  /\ aliveSinceAbort = FALSE

\* ============================================================ svcinfo
\* init of package svcinfo, run by the Go runtime before main.
SvcInit ==
  /\ svcPc = "linked"
  /\ svc' = [CommitSHA |-> InitField(svc.CommitSHA, env.COMMIT_SHA),
             BuildDate |-> InitField(svc.BuildDate, env.BUILD_DATE),
             Version |-> InitField(svc.Version, env.VERSION)]
  /\ svcPc' = "initialised"
  /\ UNCHANGED <<reporterVars, env, compiled, healthzVars>>

\* ================================================================ New
\* Mutant of ApplyOptions: a Period option that is not positive is ignored.
RECURSIVE ApplyOptions_Validating(_, _)
ApplyOptions_Validating(cfg, opts) ==
  IF opts = <<>> THEN cfg
  ELSE LET o == Head(opts) IN
       ApplyOptions_Validating(
         IF o.kind = "Period"
           THEN (IF o.t > 0 THEN [cfg EXCEPT !.period = o.t] ELSE cfg)
           ELSE [cfg EXCEPT !.defaultTags = o.tags],
         Tail(opts))

\* r.period and r.defaultTags after the option functions ran in order.
RECURSIVE ApplyOptions(_, _)
ApplyOptions(cfg, opts) ==
  IF opts = <<>> THEN cfg
  ELSE LET o == Head(opts) IN
       ApplyOptions(IF o.kind = "Period"
                      THEN [cfg EXCEPT !.period = o.t]
                      ELSE [cfg EXCEPT !.defaultTags = o.tags],
                    Tail(opts))

\* New, lines 65-77: the Reporter literal and the options loop.
NewApplyOptions ==
  /\ svcPc = "initialised"
  /\ newPc = "begin"
  /\ LET cfg == ApplyOptions([period |-> DefaultPeriod, defaultTags |-> GlobalTags],
                             options)
     IN /\ period' = cfg.period
        /\ defaultTags' = cfg.defaultTags
  /\ stats' = ZeroStats
  /\ newPc' = "static"
  /\ UNCHANGED <<otherVars, inputVars, heap, infoTags, runtimeTags, mu, cancelled,
                 workerVars, timerVars, readerVars, sinkVars, ghostVars>>

\* buildTags: infoTags from svcinfo, runtimeTags appended to defaultTags.
BuildTags(h, dflt, goInfo, sv) ==
  LET info == GetDDTags(sv)
      rt == GoAppend(h, dflt,
                     <<"version:" \o goInfo.Version, "arch:" \o goInfo.Arch,
                       "os:" \o goInfo.OS>>, "rt")
  IN [heap |-> [rt.heap EXCEPT !["info"] = info],
      infoTags |-> Slice("info", Len(info), Len(info)),
      runtimeTags |-> rt.slice]

\* Mutant of NewStatic: watch is called before the startup counter is
\* sent, so that the worker is already running during that call.
NewStatic_StartsWorker ==
  /\ newPc = "static"
  /\ stats' = [GoInfo |-> RuntimeGoInfo, Mem |-> ZeroMem, Runtime |-> ZeroRuntime,
               ServiceInfo |-> GetInfo(svc)]
  /\ LET b == BuildTags(heap, defaultTags, RuntimeGoInfo, svc)
     IN /\ heap' = b.heap
        /\ infoTags' = b.infoTags
        /\ runtimeTags' = b.runtimeTags
  /\ newPc' = "startup"
  /\ wPc' = "select"
  /\ timerLeft' = 0
  /\ UNCHANGED <<otherVars, inputVars, period, defaultTags, mu, cancelled, lastGCNum,
                 i, passes, timerC, readerVars, sinkVars, ghostVars>>

\* New, lines 79-90: the static fields, the zero samples and buildTags.
NewStatic ==
  /\ newPc = "static"
  /\ stats' = [GoInfo |-> RuntimeGoInfo, Mem |-> ZeroMem, Runtime |-> ZeroRuntime,
               ServiceInfo |-> GetInfo(svc)]
  /\ LET b == BuildTags(heap, defaultTags, RuntimeGoInfo, svc)
     IN /\ heap' = b.heap
        /\ infoTags' = b.infoTags
        /\ runtimeTags' = b.runtimeTags
  /\ newPc' = "startup"
  /\ UNCHANGED <<otherVars, inputVars, period, defaultTags, mu, cancelled, workerVars,
                 timerVars, readerVars, sinkVars, ghostVars>>

\* New, line 92: r.dd.Count("startup", 1, []string{}, 1.0).
NewStartup ==
  /\ newPc = "startup"
  /\ Send(<<Call("count", "startup", 1, <<>>, -1)>>)
  /\ newPc' = "watch"
  /\ UNCHANGED <<otherVars, inputVars, heap, configVars, stats, mu, cancelled, workerVars,
                 timerVars, readerVars, ghostVars>>

\* New, lines 94-95 with watch, lines 116-120: the goroutine is started
\* with lastGCNum = 0 and a timer of duration 0, and New returns (its
\* arguments are gone with its frame).
NewWatch ==
  /\ newPc = "watch"
  /\ wPc' = "select"
  /\ lastGCNum' = U32Zero
  /\ timerLeft' = 0
  /\ newPc' = "returned"
  /\ options' = <<>>
  /\ UNCHANGED <<otherVars, svc, heap, configVars, stats, mu, cancelled, i, passes,
                 timerC, readerVars, sinkVars, ghostVars>>

\* ============================================================== timer
\* The runtime fires the timer of watch once its duration has passed: a
\* value is placed in timer.C.
TimerFire ==
  /\ wPc # "none"
  /\ timerLeft = 0
  /\ timerC' = 1
  /\ timerLeft' = -1
  /\ UNCHANGED <<otherVars, inputVars, newPc, heap, configVars, stats, mu, cancelled,
                 workerVars, readerVars, sinkVars, ghostVars>>

\* One unit of time passes while the timer is pending.
TimePasses ==
  /\ timerLeft > 0
  /\ timerLeft' = timerLeft - 1
  /\ sinceStart' = sinceStart + 1
  /\ UNCHANGED <<otherVars, inputVars, newPc, heap, configVars, stats, mu, cancelled,
                 workerVars, timerC, readerVars, sinkVars, cancelEarly, overran>>

\* ============================================================== watch
\* Mutant of SelectTimer: every tick sends the startup counter again.
SelectTimer_SendsStartup ==
  /\ wPc = "select"
  /\ timerC = 1
  /\ passes < MaxPasses
  /\ timerC' = 0
  /\ lastGCNum' = stats.Mem.NumGC
  /\ passes' = passes + 1
  /\ sink' = <<Call("count", "startup", 1, <<>>, -1)>>
  /\ startups' = startups + 1
  /\ sinceStart' = 0
  /\ wPc' = "fill_lock"
  /\ UNCHANGED <<otherVars, inputVars, newPc, heap, configVars, stats, mu, cancelled, i,
                 timerLeft, readerVars, firstCall, cancelEarly, overran>>

\* select, case <-timer.C (lines 122-127): either ready case may be
\* chosen when both are ready. start = time.Now(); lastGCNum is read.
\* sinceStart counts the time from this start on.
SelectTimer ==
  /\ wPc = "select"
  /\ timerC = 1
  /\ passes < MaxPasses
  /\ timerC' = 0
  /\ lastGCNum' = stats.Mem.NumGC
  /\ passes' = passes + 1
  /\ sink' = <<>>
  /\ sinceStart' = 0
  /\ wPc' = "fill_lock"
  /\ UNCHANGED <<otherVars, inputVars, newPc, heap, configVars, stats, mu, cancelled, i,
                 timerLeft, readerVars, startups, firstCall, cancelEarly, overran>>

\* select, case <-r.ctx.Done() (lines 142-143): the goroutine returns.
SelectDone ==
  /\ wPc = "select"
  /\ cancelled
  /\ wPc' = "exited"
  /\ UNCHANGED <<otherVars, inputVars, newPc, heap, configVars, stats, mu, cancelled,
                 lastGCNum, i, passes, timerVars, readerVars, sinkVars, ghostVars>>

\* fillStats, line 160: r.Lock() announces the writer, which keeps new
\* readers out ...
FillLockRequest ==
  /\ wPc = "fill_lock"
  /\ mu' = [mu EXCEPT !.pending = TRUE]
  /\ wPc' = "fill_wait"
  /\ UNCHANGED <<otherVars, inputVars, newPc, heap, configVars, stats, cancelled,
                 lastGCNum, i, passes, timerVars, readerVars, sinkVars, ghostVars>>

\* Mutant of FillLock: the writer does not wait for the readers.
FillLock_NoWait ==
  /\ wPc = "fill_wait"
  /\ mu' = [mu EXCEPT !.pending = FALSE, !.writer = TRUE]
  /\ wPc' = "fill_mem"
  /\ UNCHANGED <<otherVars, inputVars, newPc, heap, configVars, stats, cancelled,
                 lastGCNum, i, passes, timerVars, readerVars, sinkVars, ghostVars>>

\* ... and returns once the readers holding the lock have released it.
FillLock ==
  /\ wPc = "fill_wait"
  /\ mu.readers = {}
  /\ mu' = [mu EXCEPT !.pending = FALSE, !.writer = TRUE]
  /\ wPc' = "fill_mem"
  /\ UNCHANGED <<otherVars, inputVars, newPc, heap, configVars, stats, cancelled,
                 lastGCNum, i, passes, timerVars, readerVars, sinkVars, ghostVars>>

\* Mutant of FillMem: the snapshots handed out share their Mem with
\* r.stats (a shallow copy of a struct of pointers), so that ReadMemStats
\* writes through to them.
FillMem_SharedWithCallers ==
  /\ wPc = "fill_mem"
  /\ \E d \in 0..MaxGCStep, a \in ActiveSets :
       /\ stats.Mem.active \subseteq a
       /\ stats' = [stats EXCEPT !.Mem = [gen |-> passes,
                                          NumGC |-> U32Add(stats.Mem.NumGC, d),
                                          active |-> a]]
  /\ held' = [rd \in Readers |->
                IF held[rd] = ZeroStats THEN held[rd]
                ELSE [held[rd] EXCEPT !.Mem = stats'.Mem]]
  /\ wPc' = "fill_rt"
  /\ UNCHANGED <<otherVars, inputVars, newPc, heap, configVars, mu, cancelled,
                 lastGCNum, i, passes, timerVars, rPc, snap, sinkVars, ghostVars>>

\* fillStats, line 162: runtime.ReadMemStats(&r.stats.Mem). Since the last
\* sample up to MaxGCStep collections ran (NumGC is a uint32 in the
\* runtime too) and size classes may have become active.
FillMem ==
  /\ wPc = "fill_mem"
  /\ \E d \in 0..MaxGCStep, a \in ActiveSets :
       /\ stats.Mem.active \subseteq a
       /\ stats' = [stats EXCEPT !.Mem = [gen |-> passes,
                                          NumGC |-> U32Add(stats.Mem.NumGC, d),
                                          active |-> a]]
  /\ wPc' = "fill_rt"
  /\ UNCHANGED <<otherVars, inputVars, newPc, heap, configVars, mu, cancelled,
                 lastGCNum, i, passes, timerVars, readerVars, sinkVars, ghostVars>>

\* Mutant of FillRuntime: the whole of r.stats is replaced by a new Stats
\* holding the two samples, which drops the static fields.
FillRuntime_NewStats ==
  /\ wPc = "fill_rt"
  /\ stats' = [ZeroStats EXCEPT !.Mem = stats.Mem, !.Runtime = [gen |-> passes]]
  /\ wPc' = "fill_unlock"
  /\ UNCHANGED <<otherVars, inputVars, newPc, heap, configVars, mu, cancelled,
                 lastGCNum, i, passes, timerVars, readerVars, sinkVars, ghostVars>>

\* fillStats, lines 164-169: r.stats.Runtime is replaced.
FillRuntime ==
  /\ wPc = "fill_rt"
  /\ stats' = [stats EXCEPT !.Runtime = [gen |-> passes]]
  /\ wPc' = "fill_unlock"
  /\ UNCHANGED <<otherVars, inputVars, newPc, heap, configVars, mu, cancelled,
                 lastGCNum, i, passes, timerVars, readerVars, sinkVars, ghostVars>>

\* Mutant of FillUnlock: the write lock is kept for the exports of the pass.
FillUnlock_KeptForExports ==
  /\ wPc = "fill_unlock"
  /\ wPc' = "exp_head"
  /\ UNCHANGED <<otherVars, inputVars, newPc, heap, configVars, stats, mu, cancelled,
                 lastGCNum, i, passes, timerVars, readerVars, sinkVars, ghostVars>>

\* fillStats, line 171: r.Unlock().
FillUnlock ==
  /\ wPc = "fill_unlock"
  /\ mu' = [mu EXCEPT !.writer = FALSE]
  /\ wPc' = "exp_head"
  /\ UNCHANGED <<otherVars, inputVars, newPc, heap, configVars, stats, cancelled,
                 lastGCNum, i, passes, timerVars, readerVars, sinkVars, ghostVars>>

\* ------------------------------------------------------ exportMemStats
MemHeadNames ==
  <<"go.mem.total_alloc", "go.mem.alloc", "go.mem.sys", "go.mem.lookups",
    "go.mem.mallocs", "go.mem.frees", "go.mem.heap_alloc", "go.mem.heap_sys",
    "go.mem.heap_idle", "go.mem.heap_inuse", "go.mem.heap_released",
    "go.mem.heap_objects", "go.mem.stack_inuse", "go.mem.stack_sys",
    "go.mem.mspan_inuse", "go.mem.mspan_sys", "go.mem.mcache_inuse",
    "go.mem.mcache_sys", "go.mem.buck_hash_sys", "go.mem.gc_sys",
    "go.mem.other_sys", "go.mem.next_gc", "go.mem.last_gc",
    "go.mem.pause_total_ns">>

MemTailNames ==
  <<"go.mem.num_gc", "go.mem.num_forced_gc", "go.mem.gc_cpu_fraction",
    "go.mem.num_forced_gc", "go.mem.num_forced_gc">>

\* Mutant of Gauges: the gauges carry what the pass before had sampled.
Gauges_PreviousPass(names, m, tags) ==
  [k \in 1..Len(names) |-> Gauge(names[k], m.gen - 1, tags)]

\* One gauge per name, each with the value sampled in pass m.gen.
Gauges(names, m, tags) ==
  [k \in 1..Len(names) |-> Gauge(names[k], m.gen, tags)]

\* exportMemStats, lines 193-217, and the start of the pause loop.
ExportMemHead ==
  /\ wPc = "exp_head"
  /\ Send(Gauges(MemHeadNames, stats.Mem, Contents(heap, defaultTags)))
  /\ i' = lastGCNum
  /\ wPc' = "exp_pause"
  /\ UNCHANGED <<otherVars, inputVars, newPc, heap, configVars, stats, mu, cancelled,
                 lastGCNum, passes, timerVars, readerVars, ghostVars>>

PauseSamples == SelectSeq(sink, LAMBDA c : c.name = "go.mem.pause_ns")

\* exportMemStats, lines 220-226: one iteration of
\* for i := lastGCNum; i <= r.stats.Mem.NumGC; i++.
PauseIter ==
  /\ wPc = "exp_pause"
  /\ U32Le(i, stats.Mem.NumGC)
  /\ Len(PauseSamples) < MaxPauseEmit
  /\ LET slot == U32Slot(i)
         t == ParseDuration(SprintfNs(PauseNs(stats.Mem, slot)))
     IN IF t.err
          THEN UNCHANGED sinkVars
          ELSE Send(<<Call("timing", "go.mem.pause_ns", t.d,
                           Contents(heap, defaultTags), slot)>>)
  /\ i' = U32Inc(i)
  /\ UNCHANGED <<otherVars, inputVars, newPc, heap, configVars, stats, mu, cancelled,
                 wPc, lastGCNum, passes, timerVars, readerVars, ghostVars>>

\* The loop condition i <= r.stats.Mem.NumGC fails: the loop is left.
PauseDone ==
  /\ wPc = "exp_pause"
  /\ ~U32Le(i, stats.Mem.NumGC)
  /\ wPc' = "exp_tail"
  /\ UNCHANGED <<otherVars, inputVars, newPc, heap, configVars, stats, mu, cancelled,
                 lastGCNum, i, passes, timerVars, readerVars, sinkVars, ghostVars>>

\* Mutant of ExportMemTail: the context is looked at between two steps of
\* the pass, and a cancelled worker returns there.
ExportMemTail_ChecksCtx ==
  /\ wPc = "exp_tail"
  /\ IF cancelled
       THEN /\ wPc' = "exited"
            /\ UNCHANGED sinkVars
       ELSE /\ Send(Gauges(MemTailNames, stats.Mem, Contents(heap, defaultTags)))
            /\ wPc' = "exp_bysize"
  /\ UNCHANGED <<otherVars, inputVars, newPc, heap, configVars, stats, mu, cancelled,
                 lastGCNum, i, passes, timerVars, readerVars, ghostVars>>

\* exportMemStats, lines 228-232.
ExportMemTail ==
  /\ wPc = "exp_tail"
  /\ Send(Gauges(MemTailNames, stats.Mem, Contents(heap, defaultTags)))
  /\ wPc' = "exp_bysize"
  /\ UNCHANGED <<otherVars, inputVars, newPc, heap, configVars, stats, mu, cancelled,
                 lastGCNum, i, passes, timerVars, readerVars, ghostVars>>

\* Mutant of BySizeLoop: size classes without allocations are skipped.
RECURSIVE BySizeLoop_SkipIdle(_, _, _, _)
BySizeLoop_SkipIdle(h, dflt, bs, c) ==
  IF c > Len(bs) THEN [heap |-> h, calls |-> <<>>]
  ELSE IF bs[c].Mallocs = 0 THEN BySizeLoop_SkipIdle(h, dflt, bs, c + 1)
  ELSE LET ap == GoAppend(h, dflt, <<"size:" \o ToString(bs[c].Size)>>, "tmp")
           tags == Contents(ap.heap, ap.slice)
           rest == BySizeLoop_SkipIdle(ap.heap, dflt, bs, c + 1)
       IN [heap |-> rest.heap,
           calls |-> <<Gauge("go.mem.mallocs_by_size", bs[c].Mallocs, tags),
                       Gauge("go.mem.frees_by_size", bs[c].Frees, tags)>>
                     \o rest.calls]

\* exportMemStats, lines 234-241: for each entry of BySize from index c
\* on, tags = append(r.defaultTags, "size:<n>") and the two gauges.
RECURSIVE BySizeLoop(_, _, _, _)
BySizeLoop(h, dflt, bs, c) ==
  IF c > Len(bs) THEN [heap |-> h, calls |-> <<>>]
  ELSE LET ap == GoAppend(h, dflt, <<"size:" \o ToString(bs[c].Size)>>, "tmp")
           tags == Contents(ap.heap, ap.slice)
           rest == BySizeLoop(ap.heap, dflt, bs, c + 1)
       IN [heap |-> rest.heap,
           calls |-> <<Gauge("go.mem.mallocs_by_size", bs[c].Mallocs, tags),
                       Gauge("go.mem.frees_by_size", bs[c].Frees, tags)>>
                     \o rest.calls]

ExportBySize ==
  /\ wPc = "exp_bysize"
  /\ LET l == BySizeLoop(heap, defaultTags, BySize(stats.Mem), 1)
     IN /\ heap' = l.heap
        /\ Send(l.calls)
  /\ wPc' = "exp_runtime"
  /\ UNCHANGED <<otherVars, inputVars, newPc, configVars, stats, mu, cancelled,
                 lastGCNum, i, passes, timerVars, readerVars, ghostVars>>

\* exportRuntimeStats, lines 174-179.
RuntimeNames ==
  <<"go.num_cpu", "go.num_cgo_calls", "go.goroutines", "go.max_procs">>

ExportRuntimeStats ==
  /\ wPc = "exp_runtime"
  /\ Send(Gauges(RuntimeNames, stats.Runtime, Contents(heap, defaultTags)))
  /\ wPc' = "exp_rtinfo"
  /\ UNCHANGED <<otherVars, inputVars, newPc, heap, configVars, stats, mu, cancelled,
                 lastGCNum, i, passes, timerVars, readerVars, ghostVars>>

\* exportRuntimeInfo, lines 181-183.
ExportRuntimeInfo ==
  /\ wPc = "exp_rtinfo"
  /\ Send(<<Gauge("go.runtime", 1, Contents(heap, runtimeTags))>>)
  /\ wPc' = "exp_svcinfo"
  /\ UNCHANGED <<otherVars, inputVars, newPc, heap, configVars, stats, mu, cancelled,
                 lastGCNum, i, passes, timerVars, readerVars, ghostVars>>

\* Mutant of ExportServiceInfo: the info gauge is sent without looking at
\* the number of tags.
ExportServiceInfo_Always ==
  /\ wPc = "exp_svcinfo"
  /\ Send(<<Gauge("info", 1, Contents(heap, infoTags))>>)
  /\ wPc' = "rearm"
  /\ UNCHANGED <<otherVars, inputVars, newPc, heap, configVars, stats, mu, cancelled,
                 lastGCNum, i, passes, timerVars, readerVars, ghostVars>>

\* exportServiceInfo, lines 185-190.
ExportServiceInfo ==
  /\ wPc = "exp_svcinfo"
  /\ IF infoTags.len > 0
       THEN Send(<<Gauge("info", 1, Contents(heap, infoTags))>>)
       ELSE UNCHANGED sinkVars
  /\ wPc' = "rearm"
  /\ UNCHANGED <<otherVars, inputVars, newPc, heap, configVars, stats, mu, cancelled,
                 lastGCNum, i, passes, timerVars, readerVars, ghostVars>>

\* Mutant of Rearm: the new timer runs for the whole period.
Rearm_FullPeriod ==
  /\ wPc = "rearm"
  /\ \E processTime \in 0..MaxProcessTime :
       /\ timerLeft' = IF period - processTime > 0 THEN period ELSE timerLeft
       /\ overran' = ~(period - processTime > 0)
       /\ sinceStart' = processTime
  /\ wPc' = "select"
  /\ UNCHANGED <<otherVars, inputVars, newPc, heap, configVars, stats, mu, cancelled,
                 lastGCNum, i, passes, timerC, readerVars, sinkVars, cancelEarly>>

\* watch, lines 136-141: processTime = time.Since(start), any duration up
\* to MaxProcessTime (the pass took that long: sinceStart); a new timer
\* only if r.period - processTime > 0.
Rearm ==
  /\ wPc = "rearm"
  /\ \E processTime \in 0..MaxProcessTime :
       /\ timerLeft' = IF period - processTime > 0 THEN period - processTime
                                                    ELSE timerLeft
       /\ overran' = ~(period - processTime > 0)
       /\ sinceStart' = processTime
  /\ wPc' = "select"
  /\ UNCHANGED <<otherVars, inputVars, newPc, heap, configVars, stats, mu, cancelled,
                 lastGCNum, i, passes, timerC, readerVars, sinkVars, cancelEarly>>

\* ============================================================= Cancel
\* Cancel, lines 253-255: r.cancelFunc() closes r.ctx.Done().
Cancel ==
  /\ newPc = "returned"
  /\ cancelled' = TRUE
  /\ cancelEarly' = (cancelEarly \/ passes = 0)
  /\ UNCHANGED <<otherVars, inputVars, newPc, heap, configVars, stats, mu, workerVars,
                 timerVars, readerVars, sinkVars, overran, sinceStart>>

\* =========================================================== GetStats
\* GetStats, line 246: the call has been made and r.RLock() has not yet
\* returned. Specifications that do not follow a blocked caller take the
\* call and its RLock as one step, from "idle".
GetStatsCall(rd) ==
  /\ newPc = "returned"
  /\ rPc[rd] = "idle"
  /\ rPc' = [rPc EXCEPT ![rd] = "waiting"]
  /\ UNCHANGED <<otherVars, inputVars, newPc, heap, configVars, stats, mu, cancelled,
                 workerVars, timerVars, snap, held, sinkVars, ghostVars>>

\* Mutant of GetStatsRLock: a reader does not give way to a writer that
\* is waiting for the lock.
GetStatsRLock_IgnoresPending(rd) ==
  /\ newPc = "returned"
  /\ rPc[rd] \in {"idle", "waiting"}
  /\ ~mu.writer
  /\ mu' = [mu EXCEPT !.readers = @ \cup {rd}]
  /\ snap' = [snap EXCEPT ![rd] = [@ EXCEPT !.GoInfo = stats.GoInfo,
                                            !.Mem = stats.Mem]]
  /\ rPc' = [rPc EXCEPT ![rd] = "copying"]
  /\ UNCHANGED <<otherVars, inputVars, newPc, heap, configVars, stats, cancelled,
                 workerVars, timerVars, held, sinkVars, ghostVars>>

\* Mutant of GetStatsRLock: the copy is made without taking the read lock,
\* whatever the writer is doing.
GetStatsRLock_Unlocked(rd) ==
  /\ newPc = "returned"
  /\ rPc[rd] \in {"idle", "waiting"}
  /\ snap' = [snap EXCEPT ![rd] = [@ EXCEPT !.GoInfo = stats.GoInfo,
                                            !.Mem = stats.Mem]]
  /\ rPc' = [rPc EXCEPT ![rd] = "copying"]
  /\ UNCHANGED <<otherVars, inputVars, newPc, heap, configVars, stats, mu, cancelled,
                 workerVars, timerVars, held, sinkVars, ghostVars>>

\* GetStats, lines 246-249: r.RLock() waits while a writer holds or
\* awaits the lock; return r.stats then copies the struct field by field,
\* GoInfo and Mem first ...
GetStatsRLock(rd) ==
  /\ newPc = "returned"
  /\ rPc[rd] \in {"idle", "waiting"}
  /\ ~mu.writer /\ ~mu.pending
  /\ mu' = [mu EXCEPT !.readers = @ \cup {rd}]
  /\ snap' = [snap EXCEPT ![rd] = [@ EXCEPT !.GoInfo = stats.GoInfo,
                                            !.Mem = stats.Mem]]
  /\ rPc' = [rPc EXCEPT ![rd] = "copying"]
  /\ UNCHANGED <<otherVars, inputVars, newPc, heap, configVars, stats, cancelled,
                 workerVars, timerVars, held, sinkVars, ghostVars>>

\* ... then Runtime and ServiceInfo: the copy is complete.
GetStatsCopyRest(rd) ==
  /\ rPc[rd] = "copying"
  /\ snap' = [snap EXCEPT ![rd] = [@ EXCEPT !.Runtime = stats.Runtime,
                                            !.ServiceInfo = stats.ServiceInfo]]
  /\ rPc' = [rPc EXCEPT ![rd] = "copied"]
  /\ UNCHANGED <<otherVars, inputVars, newPc, heap, configVars, stats, mu, cancelled,
                 workerVars, timerVars, held, sinkVars, ghostVars>>

\* GetStats, line 247: the deferred r.RUnlock() runs and the copy is
\* handed to the caller.
GetStatsReturn(rd) ==
  /\ rPc[rd] = "copied"
  /\ mu' = [mu EXCEPT !.readers = @ \ {rd}]
  /\ rPc' = [rPc EXCEPT ![rd] = "idle"]
  /\ snap' = [snap EXCEPT ![rd] = ZeroStats]
  /\ UNCHANGED <<otherVars, inputVars, newPc, heap, configVars, stats, cancelled,
                 workerVars, timerVars, held, sinkVars, ghostVars>>

\* The same return in a caller that keeps the result, s = r.GetStats():
\* the copy is assigned to the caller's variable.
GetStatsReturnKept(rd) ==
  /\ rPc[rd] = "copied"
  /\ mu' = [mu EXCEPT !.readers = @ \ {rd}]
  /\ rPc' = [rPc EXCEPT ![rd] = "idle"]
  /\ held' = [held EXCEPT ![rd] = snap[rd]]
  /\ snap' = [snap EXCEPT ![rd] = ZeroStats]
  /\ UNCHANGED <<otherVars, inputVars, newPc, heap, configVars, stats, cancelled,
                 workerVars, timerVars, sinkVars, ghostVars>>

\* ====================================================== specification
Init ==
  /\ options \in OptionLists
  /\ svc \in SvcSamples
  /\ newPc = "begin"
  /\ heap = InitHeap
  /\ period = 0
  /\ defaultTags = GlobalTags
  /\ infoTags = GlobalTags
  /\ runtimeTags = GlobalTags
  /\ stats = ZeroStats
  /\ mu = [writer |-> FALSE, pending |-> FALSE, readers |-> {}]
  /\ cancelled = FALSE
  /\ wPc = "none"
  /\ lastGCNum = U32Zero
  /\ i = U32Zero
  /\ timerC = 0
  /\ timerLeft = -1
  /\ passes = 0
  /\ rPc = [rd \in Readers |-> "idle"]
  /\ snap = [rd \in Readers |-> ZeroStats]
  /\ held = [rd \in Readers |-> ZeroStats]
  /\ sink = <<>>
  /\ startups = 0
  /\ firstCall = ""
  /\ cancelEarly = FALSE
  /\ overran = FALSE
  /\ sinceStart = 0
  /\ env = NoEnv
  /\ compiled = svc
  /\ svcPc = "initialised"
  /\ hzMux = "mux"
  /\ hzOpts = <<>>
  /\ HealthzNotBuilt

Next ==
  \/ NewApplyOptions
  \/ NewStatic
  \/ NewStartup
  \/ NewWatch
  \/ TimerFire
  \/ TimePasses
  \/ SelectTimer
  \/ SelectDone
  \/ FillLockRequest
  \/ FillLock
  \/ FillMem
  \/ FillRuntime
  \/ FillUnlock
  \/ ExportMemHead
  \/ PauseIter
  \/ PauseDone
  \/ ExportMemTail
  \/ ExportBySize
  \/ ExportRuntimeStats
  \/ ExportRuntimeInfo
  \/ ExportServiceInfo
  \/ Rearm
  \/ Cancel
  \/ \E rd \in Readers : GetStatsRLock(rd)
  \/ \E rd \in Readers : GetStatsCopyRest(rd)
  \/ \E rd \in Readers : GetStatsReturn(rd)

Spec == Init /\ [][Next]_vars

\* ------------------------------------------ a Reporter without options
\* reporter.New(dd): the period is DefaultPeriod and there are no default
\* tags; everything else is as in Spec.
InitDefault ==
  /\ Init
  /\ options = <<>>

SpecDefault == InitDefault /\ [][Next]_vars

\* ------------------------------------------- a Reporter later in its life
\* The GC count stored by the previous pass is far from 0 only after more
\* passes than can be followed one by one. InitMidLife is a Reporter whose
\* New returned long ago and whose worker, after a pass that sampled the GC
\* count L, is back at its select with the timer fired; the passes before
\* are not followed (passes = 1 stands for all of them, sink is empty).
MidLifeGCCounts ==
  {U32(0, 10), U32(0, RingSize - 2), U32(HalfWord - 1, HalfWord - 3)}

InitMidLife ==
  \E L \in MidLifeGCCounts, dflt \in {GlobalTags, TagsB}, sv \in SvcSamples,
     a \in ActiveSets :
    LET mem == [gen |-> 1, NumGC |-> L, active |-> a]
        b == BuildTags(InitHeap, dflt, RuntimeGoInfo, sv)
        h == BySizeLoop(b.heap, dflt, BySize(mem), 1).heap
    IN /\ options = <<>>
       /\ svc = sv
       /\ newPc = "returned"
       /\ heap = h
       /\ period = DefaultPeriod
       /\ defaultTags = dflt
       /\ infoTags = b.infoTags
       /\ runtimeTags = b.runtimeTags
       /\ stats = [GoInfo |-> RuntimeGoInfo, Mem |-> mem, Runtime |-> [gen |-> 1],
                   ServiceInfo |-> GetInfo(sv)]
       /\ mu = [writer |-> FALSE, pending |-> FALSE, readers |-> {}]
       /\ cancelled = FALSE
       /\ wPc = "select"
       /\ lastGCNum = L
       /\ i = U32Inc(L)
       /\ timerC = 1
       /\ timerLeft = -1
       /\ passes = 1
       /\ rPc = [rd \in Readers |-> "idle"]
       /\ snap = [rd \in Readers |-> ZeroStats]
       /\ held = [rd \in Readers |-> ZeroStats]
       /\ sink = <<>>
       /\ startups = 1
       /\ firstCall = "startup"
       /\ cancelEarly = FALSE
       /\ overran = FALSE
       /\ sinceStart = DefaultPeriod
       /\ env = NoEnv
       /\ compiled = sv
       /\ svcPc = "initialised"
       /\ hzMux = "mux"
       /\ hzOpts = <<>>
       /\ HealthzNotBuilt

NextRunning ==
  \/ TimerFire
  \/ TimePasses
  \/ SelectTimer
  \/ SelectDone
  \/ FillLockRequest
  \/ FillLock
  \/ FillMem
  \/ FillRuntime
  \/ FillUnlock
  \/ ExportMemHead
  \/ PauseIter
  \/ PauseDone
  \/ ExportMemTail
  \/ ExportBySize
  \/ ExportRuntimeStats
  \/ ExportRuntimeInfo
  \/ ExportServiceInfo
  \/ Rearm
  \/ Cancel
  \/ \E rd \in Readers : GetStatsRLock(rd)
  \/ \E rd \in Readers : GetStatsCopyRest(rd)
  \/ \E rd \in Readers : GetStatsReturn(rd)

SpecMidLife == InitMidLife /\ [][NextRunning]_vars

\* --------------------------------------- callers that keep their snapshot
\* A Reporter built without options whose GetStats callers assign every
\* result to a variable of their own (var s Stats, the zero value before
\* the first call) and keep it while the worker goes on sampling; Cancel
\* is not called.
InitHeld ==
  /\ Init
  /\ options = <<>>
  /\ svc.CommitSHA # ""

NextHeld ==
  \/ NewApplyOptions
  \/ NewStatic
  \/ NewStartup
  \/ NewWatch
  \/ TimerFire
  \/ TimePasses
  \/ SelectTimer
  \/ FillLockRequest
  \/ FillLock
  \/ FillMem
  \/ FillRuntime
  \/ FillUnlock
  \/ ExportMemHead
  \/ PauseIter
  \/ PauseDone
  \/ ExportMemTail
  \/ ExportBySize
  \/ ExportRuntimeStats
  \/ ExportRuntimeInfo
  \/ ExportServiceInfo
  \/ Rearm
  \/ \E rd \in Readers : GetStatsRLock(rd)
  \/ \E rd \in Readers : GetStatsCopyRest(rd)
  \/ \E rd \in Readers : GetStatsReturnKept(rd)

SpecHeld == InitHeld /\ [][NextHeld]_vars

\* ------------------------------------------- svcinfo from link time on
\* The binary as linked, with any of the three variables set or not, in
\* an environment with any of the three variables set or not: svcinfo's
\* init runs, then a Reporter is built (without options) up to its calls
\* of GetDDTags and GetInfo.
InitSvcinfo ==
  /\ compiled \in SvcCompiled
  /\ svc = compiled
  /\ env \in EnvSamples
  /\ svcPc = "linked"
  /\ options = <<>>
  /\ newPc = "begin"
  /\ heap = InitHeap
  /\ period = 0
  /\ defaultTags = GlobalTags
  /\ infoTags = GlobalTags
  /\ runtimeTags = GlobalTags
  /\ stats = ZeroStats
  /\ mu = [writer |-> FALSE, pending |-> FALSE, readers |-> {}]
  /\ cancelled = FALSE
  /\ wPc = "none"
  /\ lastGCNum = U32Zero
  /\ i = U32Zero
  /\ timerC = 0
  /\ timerLeft = -1
  /\ passes = 0
  /\ rPc = [rd \in Readers |-> "idle"]
  /\ snap = [rd \in Readers |-> ZeroStats]
  /\ held = [rd \in Readers |-> ZeroStats]
  /\ sink = <<>>
  /\ startups = 0
  /\ firstCall = ""
  /\ cancelEarly = FALSE
  /\ overran = FALSE
  /\ sinceStart = 0
  /\ hzMux = "mux"
  /\ hzOpts = <<>>
  /\ HealthzNotBuilt

NextSvcinfo ==
  \/ SvcInit
  \/ NewApplyOptions
  \/ NewStatic

SpecSvcinfo == InitSvcinfo /\ [][NextSvcinfo]_vars

\* ------------------------------------------------------------ healthz
\* A service calls healthz.New with a mux or nil and any options; once it
\* has its Healthz it calls Ready, NotReady, Alive and NotAlive as it
\* likes while the mux serves requests to the ready, alive and abort
\* endpoints. No Reporter is built.
InitHealthz ==
  /\ hzMux \in {"nil", "mux"}
  /\ hzOpts \in HzOptionLists
  /\ HealthzNotBuilt
  /\ env = NoEnv
  /\ svc = [CommitSHA |-> "", BuildDate |-> "", Version |-> ""]
  /\ compiled = svc
  /\ svcPc = "initialised"
  /\ options = <<>>
  /\ newPc = "begin"
  /\ heap = InitHeap
  /\ period = 0
  /\ defaultTags = GlobalTags
  /\ infoTags = GlobalTags
  /\ runtimeTags = GlobalTags
  /\ stats = ZeroStats
  /\ mu = [writer |-> FALSE, pending |-> FALSE, readers |-> {}]
  /\ cancelled = FALSE
  /\ wPc = "none"
  /\ lastGCNum = U32Zero
  /\ i = U32Zero
  /\ timerC = 0
  /\ timerLeft = -1
  /\ passes = 0
  /\ rPc = [rd \in Readers |-> "idle"]
  /\ snap = [rd \in Readers |-> ZeroStats]
  /\ held = [rd \in Readers |-> ZeroStats]
  /\ sink = <<>>
  /\ startups = 0
  /\ firstCall = ""
  /\ cancelEarly = FALSE
  /\ overran = FALSE
  /\ sinceStart = 0

NextHealthz ==
  \/ HzNewNilCheck
  \/ HzNewOptions
  \/ HzNewRegister
  \/ HzReady
  \/ HzNotReady
  \/ HzAlive
  \/ HzNotAlive
  \/ HzReadyRead
  \/ HzReadyRespond
  \/ HzAliveRead
  \/ HzAliveRespond
  \/ HzAbortNotReady
  \/ HzAbortNotAlive
  \/ HzAbortRespond

SpecHealthz == InitHealthz /\ [][NextHealthz]_vars

\* ============================================================= claims
InPassAfterFill ==
  wPc \in {"exp_head", "exp_pause", "exp_tail", "exp_bysize", "exp_runtime",
           "exp_rtinfo", "exp_svcinfo", "rearm"}

PauseLoopLeft ==
  wPc \in {"exp_tail", "exp_bysize", "exp_runtime", "exp_rtinfo", "exp_svcinfo",
           "rearm"}

BySizeLoopLeft == wPc \in {"exp_runtime", "exp_rtinfo", "exp_svcinfo", "rearm"}

Range(q) == {q[k] : k \in 1..Len(q)}

\* C1: every snapshot a GetStats call has copied holds memory statistics and
\* runtime counters written by one and the same sampling pass, or both
\* still zero (pass 0), whatever the interleaving with the worker.
C1_SnapshotFromOnePass ==
  \A rd \in Readers :
    rPc[rd] = "copied" => snap[rd].Mem.gen = snap[rd].Runtime.gen

\* A GetStats call completed its copy of a sampled snapshot while the next
\* pass was waiting in fillStats for the lock.
C1_Witness ==
  \E rd \in Readers :
    /\ rPc[rd] = "copied"
    /\ snap[rd].Mem.gen >= 1
    /\ wPc = "fill_wait"

\* C2: after a pass that took at least the period (no new timer duration
\* is left to wait for) and without any Cancel, the worker back at its
\* select finds a tick ready, so that the next pass starts without a wait.
C2_ProceedsAfterOverrun ==
  (wPc = "select" /\ overran /\ ~cancelled) => timerC = 1

\* C3: once Cancel was called before the first pass started, the statsd
\* client receives nothing but the startup counter.
C3_CancelBeforeFirstTick ==
  cancelEarly => \A k \in 1..Len(sink) : sink[k].name = "startup"

\* C4: no sample-and-export pass starts after Cancel was called.
C4_NoPassAfterCancel == [][cancelled => passes' = passes]_vars

\* C5: the startup counter is sent exactly once, with value 1, by New before
\* the worker exists; it is the first call the statsd client ever receives
\* and no tick and no Cancel sends it again.
C5_StartupOnce ==
  /\ startups <= 1
  /\ wPc # "none" => startups = 1
  /\ firstCall \in {"", "startup"}
  /\ \A k \in 1..Len(sink) :
       sink[k].name = "startup" =>
         /\ sink[k].kind = "count"
         /\ sink[k].val = 1
         /\ passes = 0

\* Two passes ran, Cancel was called and the worker left its loop.
C5_Witness ==
  /\ passes >= 2
  /\ cancelled
  /\ wPc = "exited"
  /\ startups = 1

\* C6: every call the statsd client receives from the Reporter carries
\* each of the configured default tags.
C6_DefaultTagsOnEveryCall ==
  newPc # "begin" =>
    \A k \in 1..Len(sink) :
      Range(Contents(heap, defaultTags)) \subseteq Range(sink[k].tags)

\* The value of the last option of a kind in opts, dflt when there is none.
LastOption(opts, kind, dflt) ==
  LET at == {k \in 1..Len(opts) : opts[k].kind = kind}
  IN IF at = {} THEN dflt
     ELSE opts[CHOOSE k \in at : \A l \in at : l <= k]

NewStep == NewApplyOptions \/ NewStatic \/ NewStartup \/ NewWatch

\* C7: once New has run its options, r.period is the value of the last
\* Period option, unchecked, or 5 without one; r.defaultTags is the slice
\* of the last DefaultTags option, or the empty list; and New always has a
\* next step until it returns.
C7_OptionsAppliedAsGiven ==
  /\ newPc \in {"static", "startup", "watch"} =>
       /\ period = LastOption(options, "Period", PeriodOpt(DefaultPeriod)).t
       /\ defaultTags =
            LastOption(options, "DefaultTags", DefaultTagsOpt(GlobalTags)).tags
       /\ (options = <<>> =>
             period = DefaultPeriod /\ Contents(heap, defaultTags) = <<>>)
  /\ newPc # "returned" => ENABLED NewStep

\* New was given two Period options, the last of them not positive.
C7_Witness ==
  /\ newPc = "watch"
  /\ Len(options) = 2
  /\ options[1].kind = "Period"
  /\ options[2].kind = "Period"
  /\ options[1].t # options[2].t
  /\ period <= 0

\* The slots L mod 256 .. C mod 256 of the claim, for a previous GC count L
\* and a current GC count C with L <= C.
InclusiveSlots(L, C) ==
  [k \in 1..(U32Diff(C, L) + 1) |-> (U32Slot(L) + k - 1) % RingSize]

\* C8: in a pass with previous GC count L <= current GC count C, the
\* go.mem.pause_ns samples emitted are exactly C - L + 1, read from slots
\* L mod 256 .. C mod 256 in that order: never more, and all of them once
\* the loop is left.
C8_PauseSamplesInclusive ==
  (InPassAfterFill /\ U32Le(lastGCNum, stats.Mem.NumGC)) =>
    LET want == InclusiveSlots(lastGCNum, stats.Mem.NumGC)
        got == PauseSamples
    IN /\ Len(got) <= Len(want)
       /\ \A k \in 1..Len(got) : k <= Len(want) => got[k].slot = want[k]
       /\ PauseLoopLeft => Len(got) = Len(want)

\* The inclusive rule below the top of the uint32 range: for every current
\* GC count C < 2^32 - 1 the pause loop is left after exactly C - L + 1
\* samples, read from slots L mod 256 .. C mod 256 in that order.
PauseSamplesInclusiveBelowWrap ==
  stats.Mem.NumGC # MaxUint32 => C8_PauseSamplesInclusive

\* C9: once the pause loop of a pass is left, the go.mem.pause_ns samples it
\* emitted number the GC events since the previous pass, C - L.
C9_OneSamplePerGC ==
  (PauseLoopLeft /\ U32Le(lastGCNum, stats.Mem.NumGC)) =>
    Len(PauseSamples) = U32Diff(stats.Mem.NumGC, lastGCNum)

SizeGauges ==
  SelectSeq(sink, LAMBDA c : c.name \in {"go.mem.mallocs_by_size",
                                         "go.mem.frees_by_size"})

SizeTagged(c, size) ==
  c.tags = Contents(heap, defaultTags) \o <<"size:" \o ToString(size)>>

\* C10 as stated: with k size classes active, the size-class loop of a pass
\* emits exactly 2k gauges, each tagged with the default tags followed by
\* its size:<n> label.
C10_TwoGaugesPerActiveClass ==
  BySizeLoopLeft =>
    /\ Len(SizeGauges) = 2 * Cardinality(stats.Mem.active)
    /\ \A k \in 1..Len(SizeGauges) :
         \E c \in stats.Mem.active : SizeTagged(SizeGauges[k], SizeOfClass(c))

\* C10 amended: the size-class loop emits two gauges for every entry of
\* BySize, active or not, in entry order (mallocs, then frees), each tagged
\* with the default tags followed by the entry's size:<n> label.
C10_TwoGaugesPerBySizeEntry ==
  BySizeLoopLeft =>
    LET bs == BySize(stats.Mem)
        g == SizeGauges
    IN /\ Len(g) = 2 * Len(bs)
       /\ \A c \in 1..Len(bs) :
            /\ g[2 * c - 1].name = "go.mem.mallocs_by_size"
            /\ g[2 * c - 1].val = bs[c].Mallocs
            /\ SizeTagged(g[2 * c - 1], bs[c].Size)
            /\ g[2 * c].name = "go.mem.frees_by_size"
            /\ g[2 * c].val = bs[c].Frees
            /\ SizeTagged(g[2 * c], bs[c].Size)

\* A pass left its size-class loop with default tags configured and fewer
\* size classes active than BySize has entries.
C10_Witness ==
  /\ BySizeLoopLeft
  /\ defaultTags.len > 0
  /\ stats.Mem.active # {}
  /\ Cardinality(stats.Mem.active) < NumSizeClasses

\* C11: the static fields of r.stats are those New stored (the Go version,
\* architecture and OS of the binary, the service information of svcinfo)
\* from then on, through every pass, and every snapshot GetStats copies
\* carries them.
C11_StaticFieldsFixed ==
  LET service == [BuildDate |-> svc.BuildDate, CommitSHA |-> svc.CommitSHA,
                  Version |-> svc.Version]
  IN /\ newPc \in {"startup", "watch", "returned"} =>
          stats.GoInfo = RuntimeGoInfo /\ stats.ServiceInfo = service
     /\ \A rd \in Readers :
          rPc[rd] = "copied" =>
            snap[rd].GoInfo = RuntimeGoInfo /\ snap[rd].ServiceInfo = service

\* A snapshot copied after the second pass sampled, in a service that has
\* a commit and a version.
C11_Witness ==
  \E rd \in Readers :
    /\ rPc[rd] = "copied"
    /\ snap[rd].Mem.gen = 2
    /\ snap[rd].Runtime.gen = 2
    /\ svc.CommitSHA # ""

RuntimeLabels ==
  <<"version:" \o RuntimeGoInfo.Version, "arch:" \o RuntimeGoInfo.Arch,
    "os:" \o RuntimeGoInfo.OS>>

\* C12: once New has built the label lists, the runtime label list is the
\* default tags followed by the version, arch and os labels, the caller's
\* default-tag slice holds what the caller put there, and every go.runtime
\* gauge is emitted with exactly that label list.
C12_RuntimeTagsFixed ==
  newPc \in {"startup", "watch", "returned"} =>
    /\ Contents(heap, defaultTags) = Contents(InitHeap, defaultTags)
    /\ Contents(heap, runtimeTags) = Contents(InitHeap, defaultTags) \o RuntimeLabels
    /\ \A k \in 1..Len(sink) :
         sink[k].name = "go.runtime" =>
           sink[k].tags = Contents(InitHeap, defaultTags) \o RuntimeLabels

\* C13: after a pass that took less than the period the worker waits on a
\* timer of period - elapsed: while it runs, the time since the start of
\* the pass and the time left add up to the period, and it fires exactly
\* one period after the start of the pass.
C13_TicksOnePeriodApart ==
  (wPc = "select" /\ passes >= 1 /\ ~overran) =>
    /\ (timerLeft >= 0) # (timerC = 1)
    /\ (timerLeft >= 0) => (timerLeft + sinceStart = period)
    /\ (timerC = 1) => (sinceStart = period)

\* After a pass of the default period that took some time, the timer
\* fired for the next pass.
C13_Witness ==
  /\ wPc = "select"
  /\ passes = 1
  /\ ~overran
  /\ timerC = 1
  /\ period = DefaultPeriod
  /\ sinceStart = DefaultPeriod

HeldOnlyByReturn ==
  \A rd \in Readers :
    (held'[rd] # held[rd]) => (rPc[rd] = "copied" /\ held'[rd] = snap[rd])

GetStatsReadsOnly ==
  (rPc' # rPc) =>
    UNCHANGED <<heap, configVars, stats, cancelled, workerVars, timerVars,
                sinkVars>>

\* C14: a snapshot a caller holds changes only when that caller's own
\* GetStats call returns; it equals r.stats as long as no pass has sampled
\* since it was copied (so that two calls without a pass between them
\* return equal snapshots); and no step of GetStats changes anything of
\* the Reporter but the state of its lock.
C14_SnapshotOwnedByCaller ==
  /\ [](\A rd \in Readers :
          (/\ held[rd] # ZeroStats
           /\ held[rd].Mem.gen = stats.Mem.gen
           /\ held[rd].Runtime.gen = stats.Runtime.gen) => held[rd] = stats)
  /\ [][HeldOnlyByReturn /\ GetStatsReadsOnly]_vars

\* A caller holds the snapshot of the first pass while r.stats holds what
\* the second pass sampled.
C14_Witness ==
  \E rd \in Readers :
    /\ held[rd].Mem.gen = 1
    /\ held[rd].Runtime.gen = 1
    /\ stats.Mem.gen = 2
    /\ stats.Mem # held[rd].Mem

\* The tags of the service identity s, stated by position: the non-empty
\* ones among commit, build date and version, labelled, in that order.
ServiceLabels(s) ==
  LET fields == <<[label |-> "commit:", value |-> s.CommitSHA],
                  [label |-> "build_date:", value |-> s.BuildDate],
                  [label |-> "version:", value |-> s.Version]>>
      set == SelectSeq(fields, LAMBDA f : f.value # "")
  IN [n \in 1..Len(set) |-> set[n].label \o set[n].value]

\* C15: once svcinfo's init has run, each of CommitSHA, BuildDate and
\* Version is its compile-time value when that is not empty, and otherwise
\* the value of COMMIT_SHA, BUILD_DATE, VERSION (empty when unset).
C15_EnvOnlyAsFallback ==
  svcPc = "initialised" =>
    /\ svc.CommitSHA =
         (IF compiled.CommitSHA # "" THEN compiled.CommitSHA ELSE env.COMMIT_SHA)
    /\ svc.BuildDate =
         (IF compiled.BuildDate # "" THEN compiled.BuildDate ELSE env.BUILD_DATE)
    /\ svc.Version =
         (IF compiled.Version # "" THEN compiled.Version ELSE env.VERSION)

\* init ran with a commit compiled in and set in the environment too, and
\* a version set in the environment only.
C15_Witness ==
  /\ svcPc = "initialised"
  /\ compiled.CommitSHA # ""
  /\ env.COMMIT_SHA # ""
  /\ compiled.Version = ""
  /\ env.VERSION # ""
  /\ svc.Version = env.VERSION

\* C16: the tags New got from GetDDTags are one per non-empty variable,
\* commit:, build_date:, version: in that order (none when all three are
\* empty), and the ServiceInfo it got from GetInfo holds the three values.
C16_TagsPerNonEmptyField ==
  newPc = "startup" =>
    /\ Contents(heap, infoTags) = ServiceLabels(svc)
    /\ Len(Contents(heap, infoTags)) =
         Cardinality({f \in {"CommitSHA", "BuildDate", "Version"} : svc[f] # ""})
    /\ stats.ServiceInfo.CommitSHA = svc.CommitSHA
    /\ stats.ServiceInfo.BuildDate = svc.BuildDate
    /\ stats.ServiceInfo.Version = svc.Version

\* GetDDTags ran with a build date and a version but no commit.
C16_Witness ==
  /\ newPc = "startup"
  /\ svc.CommitSHA = ""
  /\ svc.BuildDate # ""
  /\ svc.Version # ""
  /\ Len(Contents(heap, infoTags)) = 2

InfoGauges == SelectSeq(sink, LAMBDA c : c.name = "info")

RuntimeInfoGauges == SelectSeq(sink, LAMBDA c : c.name = "go.runtime")

\* C17: a pass sends the go.runtime gauge once, with value 1, and the info
\* gauge at most once, with value 1 and the service tags; when its exports
\* are done it has sent the info gauge if and only if the service has a
\* commit, a build date or a version.
C17_InfoGaugesPerTick ==
  /\ Len(RuntimeInfoGauges) <= 1
  /\ Len(InfoGauges) <= 1
  /\ \A k \in 1..Len(sink) :
       sink[k].name \in {"info", "go.runtime"} =>
         sink[k].kind = "gauge" /\ sink[k].val = 1
  /\ \A k \in 1..Len(InfoGauges) : InfoGauges[k].tags = ServiceLabels(svc)
  /\ wPc \in {"exp_svcinfo", "rearm"} => Len(RuntimeInfoGauges) = 1
  /\ wPc = "rearm" =>
       (Len(InfoGauges) = 1 <=>
          (svc.CommitSHA # "" \/ svc.BuildDate # "" \/ svc.Version # ""))

\* The second pass of a service without any identity finished its exports.
C17_Witness ==
  /\ wPc = "rearm"
  /\ passes = 2
  /\ svc.CommitSHA = "" /\ svc.BuildDate = "" /\ svc.Version = ""
  /\ Len(RuntimeInfoGauges) = 1
  /\ Len(InfoGauges) = 0

SetAliveGiven == \E k \in 1..Len(hzOpts) : hzOpts[k] = "SetAlive"

\* What an endpoint answers when its state is, or is not, healthy.
HealthAnswer(ok, r) ==
  IF ok THEN r.code = 200 /\ r.body = "healthy"
        ELSE r.code = 503 /\ r.body = "unhealthy"

\* C18: h.ready is healthy exactly when the most recent of Ready() and
\* NotReady() was Ready(), and h.alive exactly when the most recent of
\* Alive() and NotAlive() was Alive() or, without any, SetAlive() was
\* given (so that neither pair of calls touches the other state); and
\* every answer of /healthz/ready and /healthz/alive is 200 "healthy" or
\* 503 "unhealthy" according to the calls made before the handler read.
C18_EndpointsFollowLastCall ==
  /\ hzPc = "serving" =>
       /\ hz.ready = (IF lastReady = "Ready" THEN healthy ELSE unhealthy)
       /\ hz.alive = (IF lastAlive = "Alive" \/ (lastAlive = "none" /\ SetAliveGiven)
                        THEN healthy ELSE unhealthy)
  /\ hzResp["ready"].code # 0 =>
       HealthAnswer(hzResp["ready"].seen = "Ready", hzResp["ready"])
  /\ hzResp["alive"].code # 0 =>
       HealthAnswer(\/ hzResp["alive"].seen = "Alive"
                    \/ (hzResp["alive"].seen = "none" /\ SetAliveGiven),
                    hzResp["alive"])

\* /healthz/ready answered 200 after Ready() and /healthz/alive answered
\* 503 after NotAlive(), in a service that was built alive.
C18_Witness ==
  /\ SetAliveGiven
  /\ hzResp["ready"].code = 200
  /\ hzResp["ready"].seen = "Ready"
  /\ hzResp["alive"].code = 503
  /\ hzResp["alive"].seen = "NotAlive"
  /\ ~aborted

\* C19: a request to /healthz/abortabortabort is answered 200; once one
\* has completed, h.ready is unhealthy as long as Ready() was not called
\* after the handler's NotReady(), h.alive is unhealthy as long as Alive()
\* was not called after its NotAlive(), and every request that reads the
\* state meanwhile is answered 503 "unhealthy".
C19_AbortMakesUnhealthy ==
  /\ hzResp["abort"].code \in {0, 200}
  /\ (aborted /\ ~readySinceAbort) => hz.ready = unhealthy
  /\ (aborted /\ ~aliveSinceAbort) => hz.alive = unhealthy
  /\ \A e \in {"ready", "alive"} :
       hzResp[e].pinned => HealthAnswer(FALSE, hzResp[e])

\* After an abort request completed in a service that was built alive,
\* both endpoints have answered 503.
C19_Witness ==
  /\ SetAliveGiven
  /\ aborted
  /\ hzResp["abort"].code = 200
  /\ hzResp["ready"].pinned /\ hzResp["ready"].code = 503
  /\ hzResp["alive"].pinned /\ hzResp["alive"].code = 503
  /\ lastAlive = "NotAlive"

\* C20: healthz.New given a nil mux returns nil and an error and has
\* called no option function; given a mux it returns, without error, a
\* Healthz on which every option was called, whose ready state is
\* unhealthy and whose alive state is unhealthy unless SetAlive() was
\* among the options.
C20_NewChecksMux ==
  /\ hzMux = "nil" => hzPc \in {"none", "failed"}
  /\ hzPc = "failed" =>
       hzMux = "nil" /\ hzErr # "" /\ hz = NilHealthz /\ hzApplied = 0
  /\ hzPc \in {"options", "register", "serving"} => hzMux = "mux" /\ hzErr = ""
  /\ (hzPc = "register" \/ (hzPc = "serving" /\ lastReady = "none" /\ lastAlive = "none")) =>
       /\ hzApplied = Len(hzOpts)
       /\ hz.ready = unhealthy
       /\ hz.alive = (IF SetAliveGiven THEN healthy ELSE unhealthy)
       /\ hz.Status = unhealthy

\* healthz.New returned its error although SetAlive() was passed.
C20_Witness ==
  /\ hzPc = "failed"
  /\ hzMux = "nil"
  /\ SetAliveGiven
  /\ Len(hzOpts) = 2

CountNamed(names) ==
  LET set == Range(names)
  IN Len(SelectSeq(sink, LAMBDA c : c.name \in set))

\* All exports of the pass in progress have been made.
PassComplete ==
  /\ CountNamed(MemHeadNames) = Len(MemHeadNames)
  /\ CountNamed(MemTailNames) = Len(MemTailNames)
  /\ Len(SizeGauges) = 2 * NumSizeClasses
  /\ CountNamed(RuntimeNames) = Len(RuntimeNames)
  /\ Len(RuntimeInfoGauges) = 1
  /\ Len(InfoGauges) = (IF infoTags.len > 0 THEN 1 ELSE 0)

\* C21: Cancel() does not cut a pass short: a worker that has exited has
\* either made no pass at all or has made every export of its last pass
\* (memory, size classes, runtime, go.runtime, and info if the service has
\* tags), and a pass that reaches its end with the context cancelled has
\* made them all as well.
C21_PassNotCutByCancel ==
  /\ wPc = "exited" => (passes = 0 \/ PassComplete)
  /\ (wPc = "rearm" /\ cancelled) => PassComplete
  /\ (wPc = "exited" /\ passes = 0) => Len(sink) <= 1

\* Cancel() was called while the first pass was running, and that pass has
\* made all its exports.
C21_Witness ==
  /\ cancelled
  /\ ~cancelEarly
  /\ passes = 1
  /\ wPc = "rearm"
  /\ PassComplete

\* ----------------------------------------------------------- scheduling
\* The worker goroutine, once past its select, is runnable until it is back
\* there (or blocked in r.Lock()): the Go scheduler runs it.
WorkerStep ==
  \/ FillLockRequest
  \/ FillLock
  \/ FillMem
  \/ FillRuntime
  \/ FillUnlock
  \/ ExportMemHead
  \/ PauseIter
  \/ PauseDone
  \/ ExportMemTail
  \/ ExportBySize
  \/ ExportRuntimeStats
  \/ ExportRuntimeInfo
  \/ ExportServiceInfo
  \/ Rearm

\* A GetStats call that holds the read lock goes on to copy and return.
ReaderStep(rd) == GetStatsCopyRest(rd) \/ GetStatsReturn(rd)

\* select chooses among its ready cases at random (lines 121-143): a case
\* that is ready every time the worker is at the select is taken in the
\* end, which is strong fairness of SelectDone.
Scheduling ==
  /\ WF_vars(WorkerStep)
  /\ SF_vars(SelectDone)
  /\ \A rd \in Readers : WF_vars(ReaderStep(rd))

SpecFair == Spec /\ Scheduling

SpecMidLifeFair == SpecMidLife /\ Scheduling

\* C22: once Cancel() has been called the worker goroutine exits in the end,
\* wherever it was: in a pass, waiting for an armed timer, or waiting with
\* no timer armed after an overrun.
C22_CancelEndsWorker == cancelled ~> (wPc = "exited")

\* The same, short of the pass that sampled the GC count 2^32-1.
CancelEndsWorkerBelowWrap ==
  cancelled ~> (wPc = "exited" \/ stats.Mem.NumGC = MaxUint32)

\* A second Cancel() changes nothing of the Reporter: the context stays
\* cancelled and no other field is written.
CancelTwice ==
  [][cancelled => (cancelled' /\ (Cancel => UNCHANGED <<stats, mu, workerVars,
                                                        timerVars, sinkVars>>))]_vars

InFillStats == wPc \in {"fill_lock", "fill_wait", "fill_mem", "fill_rt", "fill_unlock"}

\* C23: the write lock is held only inside fillStats, where the pass has
\* made no sink call yet; from the first export of a pass to its end the
\* worker neither holds nor waits for the lock, and New holds no lock when
\* it sends the startup counter.
C23_NoSinkCallUnderLock ==
  /\ mu.writer => wPc \in {"fill_mem", "fill_rt", "fill_unlock"}
  /\ mu.pending => wPc = "fill_wait"
  /\ InFillStats => sink = <<>>
  /\ (sink # <<>>) => (~mu.writer /\ ~mu.pending)

\* While the worker is in the middle of its exports a GetStats call holds
\* the read lock.
C23_Witness ==
  /\ wPc = "exp_pause"
  /\ sink # <<>>
  /\ mu.readers # {}
  /\ \E rd \in Readers : rPc[rd] = "copying"

\* ------------------------------------ several concurrent GetStats callers
\* One caller more than Readers, so that two callers can hold the read lock
\* together whatever NumReaders is. The Reporter is the one of InitMidLife
\* with 10 collections behind it, and Cancel is not called.
Callers == 1..(NumReaders + 1)

InitLock ==
  LET sv == CHOOSE s \in SvcSamples : s.CommitSHA # ""
      mem == [gen |-> 1, NumGC |-> U32(0, 10), active |-> 2..NumSizeClasses]
      b == BuildTags(InitHeap, GlobalTags, RuntimeGoInfo, sv)
      h == BySizeLoop(b.heap, GlobalTags, BySize(mem), 1).heap
  IN /\ options = <<>>
     /\ svc = sv
     /\ newPc = "returned"
     /\ heap = h
     /\ period = DefaultPeriod
     /\ defaultTags = GlobalTags
     /\ infoTags = b.infoTags
     /\ runtimeTags = b.runtimeTags
     /\ stats = [GoInfo |-> RuntimeGoInfo, Mem |-> mem, Runtime |-> [gen |-> 1],
                 ServiceInfo |-> GetInfo(sv)]
     /\ mu = [writer |-> FALSE, pending |-> FALSE, readers |-> {}]
     /\ cancelled = FALSE
     /\ wPc = "select"
     /\ lastGCNum = U32(0, 10)
     /\ i = U32Inc(U32(0, 10))
     /\ timerC = 1
     /\ timerLeft = -1
     /\ passes = 1
     /\ rPc = [rd \in Callers |-> "idle"]
     /\ snap = [rd \in Callers |-> ZeroStats]
     /\ held = [rd \in Callers |-> ZeroStats]
     /\ sink = <<>>
     /\ startups = 1
     /\ firstCall = "startup"
     /\ cancelEarly = FALSE
     /\ overran = FALSE
     /\ sinceStart = DefaultPeriod
     /\ env = NoEnv
     /\ compiled = sv
     /\ svcPc = "initialised"
     /\ hzMux = "mux"
     /\ hzOpts = <<>>
     /\ HealthzNotBuilt

NextLock ==
  \/ TimerFire
  \/ TimePasses
  \/ SelectTimer
  \/ WorkerStep
  \/ \E rd \in Callers : GetStatsCall(rd)
  \/ \E rd \in Callers : GetStatsRLock(rd)
  \/ \E rd \in Callers : GetStatsCopyRest(rd)
  \/ \E rd \in Callers : GetStatsReturn(rd)

\* fillStats, lines 159-171, from r.Lock() to r.Unlock().
FillStatsStep == FillLockRequest \/ FillLock \/ FillMem \/ FillRuntime \/ FillUnlock

\* A GetStats call that has been made: r.RLock() once no writer holds or
\* awaits the lock, then the copy and the return.
CallerStep(rd) == (rPc[rd] = "waiting" /\ GetStatsRLock(rd)) \/ ReaderStep(rd)

\* The worker inside fillStats and a caller inside GetStats are goroutines
\* that run whenever they are not blocked on the lock: weak fairness of
\* their steps. (sync.RWMutex moreover lets the readers that were waiting
\* in when the writer unlocks; that is not needed here.)
LockScheduling ==
  /\ WF_vars(FillStatsStep)
  /\ \A rd \in Callers : WF_vars(CallerStep(rd))

SpecLock == InitLock /\ [][NextLock]_vars /\ LockScheduling

\* C24: with several GetStats callers and the worker running, the write
\* lock is never held together with a read lock and is taken only with no
\* reader in; every GetStats call that has been made returns, and every
\* pass that has started sampling gets the write lock and releases it.
C24_LockLive ==
  /\ [](~(mu.writer /\ mu.readers # {}))
  /\ [](mu.readers = {rd \in Callers : rPc[rd] \in {"copying", "copied"}})
  /\ \A rd \in Callers : (rPc[rd] = "waiting") ~> (rPc[rd] = "idle")
  /\ (wPc = "fill_lock") ~> (wPc = "exp_head")

\* Two callers hold the read lock together while the worker waits for the
\* write lock.
C24_Witness ==
  /\ Cardinality(mu.readers) >= 2
  /\ mu.pending
  /\ wPc = "fill_wait"

\* A pass starts only from the select of the one worker, that is, when the
\* pass before it is over.
PassesOneByOne ==
  (passes' # passes) => (wPc = "select" /\ wPc' = "fill_lock" /\ passes' = passes + 1)

\* A sink call is made by New (the startup counter, before the worker
\* exists) or by a step of the worker.
SinkCallsByNewOrWorker ==
  (sink' # sink) =>
    \/ (newPc = "startup" /\ wPc = "none" /\ newPc' = "watch")
    \/ (newPc = "returned" /\ wPc \notin {"none", "exited"} /\ (wPc' # wPc \/ i' # i))

\* r.stats is written by New before the worker exists, or by the worker
\* holding the write lock.
StatsWritesSerialized ==
  (stats' # stats) =>
    \/ (newPc = "static" /\ wPc = "none")
    \/ (mu.writer /\ mu.readers = {} /\ wPc \in {"fill_mem", "fill_rt"})

\* C25: the worker does not exist before New has sent the startup counter;
\* every sink call is made by New then or by a step of the worker; passes
\* start one at a time, each after the one before has ended; and r.stats
\* is written only by New before that or by the worker under the write lock.
C25_OneWorkerOnePass ==
  /\ [](newPc # "returned" => (wPc = "none" /\ passes = 0 /\ ~mu.writer))
  /\ [][PassesOneByOne /\ SinkCallsByNewOrWorker /\ StatsWritesSerialized]_vars

\* The second pass is exporting, after the startup counter and a whole
\* first pass.
C25_Witness ==
  /\ passes = 2
  /\ startups = 1
  /\ wPc = "exp_runtime"
  /\ sink # <<>>

MemHeadNameSet == Range(MemHeadNames)

MemTailNameSet == Range(MemTailNames)

RuntimeNameSet == Range(RuntimeNames)

\* The place of a sink call in the order of one pass.
StageOf(c) ==
  CASE c.name \in MemHeadNameSet -> 1
    [] c.name = "go.mem.pause_ns" -> 2
    [] c.name \in MemTailNameSet -> 3
    [] c.name \in {"go.mem.mallocs_by_size", "go.mem.frees_by_size"} -> 4
    [] c.name \in RuntimeNameSet -> 5
    [] c.name = "go.runtime" -> 6
    [] c.name = "info" -> 7
    [] OTHER -> 0

\* The stage of the exports the worker is at.
StageAt ==
  CASE wPc = "exp_head" -> 0
    [] wPc = "exp_pause" -> 2
    [] wPc = "exp_tail" -> 2
    [] wPc = "exp_bysize" -> 3
    [] wPc = "exp_runtime" -> 4
    [] wPc = "exp_rtinfo" -> 5
    [] wPc = "exp_svcinfo" -> 6
    [] OTHER -> 7

\* C26: in every pass the previous GC count is recorded before sampling
\* (until the sample is written lastGCNum equals the GC count of the
\* snapshot), the calls of the pass come in the order memory head, pause
\* samples, memory tail, size classes, runtime gauges, go.runtime, info,
\* none before the sample of the pass is written and none beyond the step
\* the worker is at, and every memory and runtime gauge carries what that
\* same pass sampled.
C26_FixedOrderOwnValues ==
  /\ wPc \in {"fill_lock", "fill_wait", "fill_mem"} => lastGCNum = stats.Mem.NumGC
  /\ InPassAfterFill =>
       /\ stats.Mem.gen = passes
       /\ stats.Runtime.gen = passes
  /\ passes >= 1 =>
       /\ \A k \in 1..Len(sink) : StageOf(sink[k]) \in 1..StageAt
       /\ \A k \in 1..(Len(sink) - 1) : StageOf(sink[k]) <= StageOf(sink[k + 1])
       /\ \A k \in 1..Len(sink) :
            LET st == StageOf(sink[k])
            IN /\ (st = 1 => (k <= Len(MemHeadNames) /\ sink[k].name = MemHeadNames[k]))
               /\ (st \in {1, 3} => sink[k].val = stats.Mem.gen)
               /\ (st = 5 => sink[k].val = stats.Runtime.gen)
               /\ (st \in {1, 3, 5} => sink[k].val = passes)

\* The second pass has made all its exports; its gauges carry the second
\* sample.
C26_Witness ==
  /\ passes = 2
  /\ wPc = "rearm"
  /\ PassComplete
  /\ \E k \in 1..Len(sink) : StageOf(sink[k]) = 5 /\ sink[k].val = 2

\* The number of the last pass whose fillStats has written its sample and
\* released the lock.
SamplesWritten == IF InFillStats THEN passes - 1 ELSE passes

\* C27: what a GetStats call copies under the read lock is r.stats as the
\* last completed fillStats left it: both samples carry the number of that
\* pass, they are the zero values as long as no fillStats has completed,
\* the static fields are those New stored, and once the worker has exited
\* it is the sample of its last pass.
C27_ResultIsLastSample ==
  \A rd \in Readers :
    /\ rPc[rd] \in {"copying", "copied"} =>
         /\ snap[rd].GoInfo = stats.GoInfo
         /\ snap[rd].Mem = stats.Mem
         /\ snap[rd].Mem.gen = SamplesWritten
         /\ snap[rd].GoInfo = RuntimeGoInfo
         /\ (SamplesWritten = 0 => snap[rd].Mem = ZeroMem)
    /\ rPc[rd] = "copied" =>
         /\ snap[rd] = stats
         /\ snap[rd].Runtime.gen = SamplesWritten
         /\ snap[rd].ServiceInfo = GetInfo(svc)
         /\ (SamplesWritten = 0 => snap[rd].Runtime = ZeroRuntime)
         /\ (wPc = "exited" => snap[rd].Mem.gen = passes /\ snap[rd].Runtime.gen = passes)

\* A call has copied the sample of the first pass while the worker, in its
\* second pass, waits for the write lock.
C27_Witness ==
  \E rd \in Readers :
    /\ rPc[rd] = "copied"
    /\ passes = 2
    /\ wPc = "fill_wait"
    /\ snap[rd].Mem.gen = 1
    /\ snap[rd].Runtime.gen = 1

\* Once the worker has exited r.stats is not written any more.
StatsFixedOnceExited == [][wPc = "exited" => stats' = stats]_vars

\* C28: in the pause loop of a pass with previous GC count L <= current GC
\* count C, the counter stays at or above L (it runs from L to C + 1),
\* every slot read is within 0..255, and once the C - L + 1 slots have been
\* read the loop condition i <= C is false, so that the loop is left and
\* the remaining gauges follow.
C28_PauseLoopTerminates ==
  (wPc = "exp_pause" /\ U32Le(lastGCNum, stats.Mem.NumGC)) =>
    /\ U32Le(lastGCNum, i)
    /\ \A k \in 1..Len(PauseSamples) : PauseSamples[k].slot \in 0..(RingSize - 1)
    /\ (Len(PauseSamples) = U32Diff(stats.Mem.NumGC, lastGCNum) + 1) =>
         ~U32Le(i, stats.Mem.NumGC)

\* The same for every current GC count below 2^32 - 1.
PauseLoopTerminatesBelowWrap ==
  stats.Mem.NumGC # MaxUint32 => C28_PauseLoopTerminates

\* Whatever the counts, the slots read are within the ring.
PauseSlotsInRing ==
  \A k \in 1..Len(PauseSamples) : PauseSamples[k].slot \in 0..(RingSize - 1)

\* ------------------------------------------------- healthz with a Reporter
\* The Reporter that SetReporter hands to healthz: built by reporter.New
\* without options for a service with a commit and a version, and stopped
\* again by Cancel() before its first pass, so that its snapshot holds the
\* static fields and the zero samples.
ReporterStopped ==
  LET sv == CHOOSE s \in SvcSamples : s.CommitSHA # ""
      b == BuildTags(InitHeap, GlobalTags, RuntimeGoInfo, sv)
  IN /\ options = <<>>
     /\ svc = sv
     /\ newPc = "returned"
     /\ heap = b.heap
     /\ period = DefaultPeriod
     /\ defaultTags = GlobalTags
     /\ infoTags = b.infoTags
     /\ runtimeTags = b.runtimeTags
     /\ stats = [GoInfo |-> RuntimeGoInfo, Mem |-> ZeroMem, Runtime |-> ZeroRuntime,
                 ServiceInfo |-> GetInfo(sv)]
     /\ mu = [writer |-> FALSE, pending |-> FALSE, readers |-> {}]
     /\ cancelled = TRUE
     /\ wPc = "exited"
     /\ lastGCNum = U32Zero
     /\ i = U32Zero
     /\ timerC = 0
     /\ timerLeft = 0
     /\ passes = 0
     /\ rPc = [rd \in Readers |-> "idle"]
     /\ snap = [rd \in Readers |-> ZeroStats]
     /\ held = [rd \in Readers |-> ZeroStats]
     /\ sink = <<Call("count", "startup", 1, <<>>, -1)>>
     /\ startups = 1
     /\ firstCall = "startup"
     /\ cancelEarly = TRUE
     /\ overran = FALSE
     /\ sinceStart = 0

InitHealthzStats ==
  /\ ReporterStopped
  /\ hzMux = "mux"
  /\ hzOpts \in HzOptionLists
  /\ HealthzNotBuilt
  /\ env = NoEnv
  /\ compiled = svc
  /\ svcPc = "initialised"

\* The requests to /healthz/alive are left out; they are those of
\* /healthz/ready with alive for ready.
NextHealthzStats ==
  \/ HzNewNilCheck
  \/ HzNewOptions
  \/ HzNewRegister
  \/ HzReady
  \/ HzNotReady
  \/ HzAlive
  \/ HzNotAlive
  \/ HzReadyRead
  \/ HzReadyRespond
  \/ HzAbortNotReady
  \/ HzAbortNotAlive
  \/ HzAbortRespond
  \/ HzStats

SpecHealthzStats == InitHealthzStats /\ [][NextHealthzStats]_vars

\* C29: no operation of a Healthz changes its Status field: from New on it
\* is unhealthy, whatever Ready, NotReady, Alive, NotAlive and the abort
\* handler have made of ready and alive; the body of every /healthz/stats
\* response carries the status (503, unhealthy), and it carries the
\* Reporter's GoInfo, Runtime and ServiceInfo if SetReporter was among the
\* options and their zero values otherwise.
C29_StatsStatusFixed ==
  /\ hzPc \in {"options", "register", "serving"} => hz.Status = unhealthy
  /\ hzStats # NoStats =>
       /\ hzStats.code = 200
       /\ hzStats.Status = [HTTPCode |-> 503, Description |-> "unhealthy"]
       /\ (\E k \in 1..Len(hzOpts) : hzOpts[k] = "SetReporter") =>
            /\ hzStats.GoInfo = stats.GoInfo
            /\ hzStats.GoRuntime = stats.Runtime
            /\ hzStats.SvcInfo = stats.ServiceInfo
       /\ ~(\E k \in 1..Len(hzOpts) : hzOpts[k] = "SetReporter") =>
            /\ hzStats.GoInfo = ZeroGoInfo
            /\ hzStats.GoRuntime = ZeroRuntime
            /\ hzStats.SvcInfo = ZeroServiceInfo

\* With a Reporter set, /healthz/stats has answered unhealthy with the
\* Reporter's service identity while ready and alive are both healthy and
\* /healthz/ready has answered 200.
C29_Witness ==
  /\ hzStats.Status.Description = "unhealthy"
  /\ hzStats.SvcInfo.CommitSHA # ""
  /\ hzStats.GoInfo = RuntimeGoInfo
  /\ hz.ready = healthy
  /\ hz.alive = healthy
  /\ hzResp["ready"].code = 200

====
